---- MODULE Spec2Model ----
(***************************************************************************)
(* A model of the UAV trajectory optimisation program: the grid            *)
(* environment (uavenv/uav2dgrid.py), the decaying exploration parameter   *)
(* (rl/rlbase.py), the SARSA agent with its snapshots (rl/sarsa.py), the   *)
(* random policy (rl/randomact.py) and the episode loop (uav.py).          *)
(*                                                                         *)
(* Numbers.  The program computes in floating point; the model computes    *)
(* in exact numbers.  A channel rate is held in units of 1/1000 bps/Hz     *)
(* (RateScale), so that a reward and its penalties are integers.  The      *)
(* exploration value, its factor and its floor are exact decimals of as    *)
(* many digits as their products need, so that a decay loses nothing; the  *)
(* program's doubles differ from them by their rounding, of the order      *)
(* 1e-16.  alpha and gamma are held in tenths.  A table                    *)
(* value is held in the unit of the rewards the agent is given.  Where the *)
(* agent is driven directly, the rewards are multiples of QScale and the   *)
(* unit 1/QScale is fine enough that every update a run of MaxCalls calls  *)
(* can make is computed without rounding.  In a longer run, and in the     *)
(* episode loop, where the rewards are the environment's and the unit is   *)
(* 1/RateScale, a product by alpha or gamma is rounded down to the unit    *)
(* where the program rounds to the nearest float.                          *)
(*                                                                         *)
(* Files.  A snapshot is a JSON document; the disk maps a file name to     *)
(* the text written under it, a document or, of a file whose writing was   *)
(* cut short, a text that is none.  The clock counts the seconds of local  *)
(* time, the resolution of a snapshot's name.                              *)
(***************************************************************************)
EXTENDS Integers, Sequences, FiniteSets, TLC

VARIABLES
  uav_pos,          \* UAVEnv.uav_pos: [col, row]
  uav_step,         \* UAVEnv.uav_step
  env_ret,          \* what the last reset()/step() returned, with the action given
  name,             \* RL.name: which policy `ai` is
  is_exploration,   \* RL.is_exploration
  q_table,          \* SARSA.q_table: state key -> row of num_actions values
  alpha,            \* SARSA.alpha, in tenths
  gamma,            \* SARSA.gamma, in tenths
  epsilon,          \* SARSA.epsilon: a DecayingFloat
  current_state,    \* SARSA.current_state: None or the state of the last call
  current_action,   \* SARSA.current_action: None or the action last returned
  agent_ret,        \* what the last call on the agent was given and returned
  n_calls,          \* calls counted against the bound of the specification
  disk,             \* the files of the working directory: name -> text
  clock,            \* localtime(), in seconds
  save_ret,         \* what the last save_data() was given, found and wrote
  switches,         \* uav.py: the switches of the run mode
  main              \* uav.py: the globals of the main loop and its position

env_vars == <<uav_pos, uav_step, env_ret>>
agent_vars == <<name, is_exploration, q_table, alpha, gamma, epsilon,
                current_state, current_action, agent_ret, n_calls>>
file_vars == <<disk, clock, save_ret>>
main_vars == <<switches, main>>
vars == <<uav_pos, uav_step, env_ret, name, is_exploration, q_table, alpha,
          gamma, epsilon, current_state, current_action, agent_ret, n_calls,
          disk, clock, save_ret, switches, main>>

\* Python's None and a value that is not None
None == <<>>
Some(x) == <<x>>
Val(o) == o[1]

-----------------------------------------------------------------------------
(* Frame, OBSTACLE, UAV, Action: the static configuration *)

ROWS == 15
COLS == 15
FLIGHT_TIME == 50

UP == 0
DOWN == 1
LEFT == 2
RIGHT == 3

\* steps the model lets an episode run (beyond FLIGHT_TIME: step() itself
\* never refuses a call)
MaxStep == 52

\* the integers handed to step(): the four directions and two integers
\* outside 0..3
ActionInputs == -1 .. 4

Pos(col, row) == [col |-> col, row |-> row]

\* OBSTACLE.POS_LIST: for x in range(9,11): for y in range(8,12)
OBSTACLE_POS_LIST == {Pos(x, y) : x \in 9 .. 10, y \in 8 .. 11}

START_POS == Pos(0, ROWS - 1)
END_POS == Pos(0, ROWS - 1)

\* the UE ids, the keys of UE.POS and UE.RATE
UE_IDS == {0, 1}

\* 1000: a rate is held as round(1000 * rate)
RateScale == 10 ^ 3

\* UE.RATE[ue_id][col][row] as COMM.get_ue_rate_matrix() fills it, each entry
\* round(RateScale * rate); a tuple indexed [ue_id + 1][col + 1][row + 1].
\* The entry is log2(1 + TX_POWER * d^-2 * beta / NOISE) with d twice the
\* pixel distance (altitude 20) from the UE to the cell centre and beta 0.01
\* where the line of sight crosses an obstacle cell, 1 elsewhere.
RATE ==
  <<
   <<
      <<44593, 44828, 44961, 44961, 44828, 44593, 44300, 43984, 43666, 43360, 43069, 42795, 42539, 42299, 42075>>,
      <<45108, 45457, 45668, 45668, 45457, 45108, 44706, 44300, 43914, 43557, 43228, 42925, 42647, 42390, 42152>>,
      <<45668, 46217, 46597, 46597, 46217, 45668, 45108, 44593, 44133, 43724, 43360, 43031, 42734, 42463, 42213>>,
      <<46217, 47114, 47927, 47927, 47114, 46217, 45457, 44828, 44300, 43848, 43455, 43107, 42795, 42513, 42256>>,
      <<46597, 47927, 49967, 49967, 47927, 46597, 45668, 44961, 44391, 43914, 43505, 43146, 42826, 42539, 42277>>,
      <<46597, 47927, 49967, 49967, 47927, 46597, 45668, 44961, 44391, 43914, 43505, 43146, 42826, 42539, 42277>>,
      <<46217, 47114, 47927, 47927, 47114, 46217, 45457, 44828, 44300, 43848, 43455, 43107, 42795, 42513, 42256>>,
      <<45668, 46217, 46597, 46597, 46217, 45668, 45108, 44593, 44133, 43724, 43360, 43031, 42734, 42463, 42213>>,
      <<45108, 45457, 45668, 45668, 45457, 45108, 44706, 44300, 43914, 43557, 43228, 42925, 42647, 42390, 42152>>,
      <<44593, 44828, 44961, 44961, 44828, 44593, 44300, 43984, 37022, 36716, 36425, 36151, 35895, 42299, 42075>>,
      <<44133, 44300, 44391, 44391, 44300, 44133, 43914, 43666, 36762, 36502, 36248, 36003, 35770, 35549, 35339>>,
      <<43724, 43848, 43914, 43914, 43848, 43724, 43557, 43360, 36502, 36281, 36061, 35844, 35633, 35431, 35236>>,
      <<43360, 43455, 43505, 43505, 43455, 43360, 43228, 43069, 42892, 36061, 35869, 35678, 35489, 35304, 35125>>,
      <<43031, 43107, 43146, 43146, 43107, 43031, 42925, 42795, 42647, 42488, 35678, 35508, 35339, 35172, 35008>>,
      <<42734, 42795, 42826, 42826, 42795, 42734, 42647, 42539, 42414, 42277, 42132, 35339, 35188, 35036, 34886>>
   >>,
   <<
      <<41880, 41983, 42075, 42152, 42213, 42256, 42277, 42277, 42256, 42213, 42152, 35431, 35339, 35236, 35125>>,
      <<42075, 42193, 42299, 42390, 42463, 42513, 42539, 42539, 42513, 42463, 42390, 35655, 35549, 35431, 35304>>,
      <<42277, 42414, 42539, 42647, 42734, 42795, 42826, 42826, 42795, 42734, 36003, 35895, 35770, 35633, 35489>>,
      <<42488, 42647, 42795, 42925, 43031, 43107, 43146, 43146, 43107, 43031, 36281, 36151, 36003, 35844, 35678>>,
      <<42704, 42892, 43069, 43228, 43360, 43455, 43505, 43505, 43455, 43360, 36584, 36425, 36248, 36061, 35869>>,
      <<42925, 43146, 43360, 43557, 43724, 43848, 43914, 43914, 43848, 37081, 36913, 36716, 36502, 36281, 36061>>,
      <<43146, 43406, 43666, 43914, 44133, 44300, 44391, 44391, 44300, 37489, 37271, 37022, 36762, 36502, 36248>>,
      <<43360, 43666, 43984, 44300, 44593, 44828, 44961, 44961, 44828, 37949, 37656, 37340, 37022, 36716, 36425>>,
      <<43557, 43914, 44300, 44706, 45108, 45457, 45668, 45668, 38813, 38464, 38062, 37656, 37271, 36913, 36584>>,
      <<43724, 44133, 44593, 45108, 45668, 46217, 46597, 46597, 39573, 39025, 38464, 37949, 37489, 37081, 36716>>,
      <<43848, 44300, 44828, 45457, 46217, 47114, 47927, 47927, 40470, 39573, 38813, 38184, 37656, 37204, 36811>>,
      <<43914, 44391, 44961, 45668, 46597, 47927, 49967, 49967, 47927, 46597, 45668, 44961, 44391, 43914, 43505>>,
      <<43914, 44391, 44961, 45668, 46597, 47927, 49967, 49967, 47927, 46597, 45668, 44961, 44391, 43914, 43505>>,
      <<43848, 44300, 44828, 45457, 46217, 47114, 47927, 47927, 47114, 46217, 45457, 44828, 44300, 43848, 43455>>,
      <<43724, 44133, 44593, 45108, 45668, 46217, 46597, 46597, 46217, 45668, 45108, 44593, 44133, 43724, 43360>>
   >>
  >>

rate(ue_id, col, row) == RATE[ue_id + 1][col + 1][row + 1]

-----------------------------------------------------------------------------
(* State.valid_action_matrix, as UAVEnv.__init__ builds it *)

\* faulty variant: the loop over the obstacle removes RIGHT and LEFT beside
\* it and forgets DOWN above it and UP below it
removed_actions_beside_only(col, row) ==
     (IF row = 0 THEN {UP} ELSE {})
  \cup (IF row = ROWS - 1 THEN {DOWN} ELSE {})
  \cup (IF col = 0 THEN {LEFT} ELSE {})
  \cup (IF col = COLS - 1 THEN {RIGHT} ELSE {})
  \cup (IF \E pos \in OBSTACLE_POS_LIST : pos.col - 1 = col /\ pos.row = row
        THEN {RIGHT} ELSE {})
  \cup (IF \E pos \in OBSTACLE_POS_LIST : pos.col + 1 = col /\ pos.row = row
        THEN {LEFT} ELSE {})

\* faulty variant: the loop over the obstacle is left out
removed_actions_border_only(col, row) ==
     (IF row = 0 THEN {UP} ELSE {})
  \cup (IF row = ROWS - 1 THEN {DOWN} ELSE {})
  \cup (IF col = 0 THEN {LEFT} ELSE {})
  \cup (IF col = COLS - 1 THEN {RIGHT} ELSE {})

\* the actions the three loops of __init__ remove from the list of a cell
removed_actions(col, row) ==
     (IF row = 0 THEN {UP} ELSE {})
  \cup (IF row = ROWS - 1 THEN {DOWN} ELSE {})
  \cup (IF col = 0 THEN {LEFT} ELSE {})
  \cup (IF col = COLS - 1 THEN {RIGHT} ELSE {})
  \cup (IF \E pos \in OBSTACLE_POS_LIST : pos.col - 1 = col /\ pos.row = row
        THEN {RIGHT} ELSE {})
  \cup (IF \E pos \in OBSTACLE_POS_LIST : pos.col + 1 = col /\ pos.row = row
        THEN {LEFT} ELSE {})
  \cup (IF \E pos \in OBSTACLE_POS_LIST : pos.col = col /\ pos.row - 1 = row
        THEN {DOWN} ELSE {})
  \cup (IF \E pos \in OBSTACLE_POS_LIST : pos.col = col /\ pos.row + 1 = row
        THEN {UP} ELSE {})

IsKept(col, row, a) == a \notin removed_actions(col, row)

\* the list [UP, DOWN, LEFT, RIGHT] of the cell after the removals
valid_action_matrix(col, row) ==
  SelectSeq(<<UP, DOWN, LEFT, RIGHT>>, LAMBDA a : IsKept(col, row, a))

\* State(col, row, step)
State(col, row, step) == [col |-> col, row |-> row, step |-> step]

\* State.valid_actions()
valid_actions(state) == valid_action_matrix(state.col, state.row)

-----------------------------------------------------------------------------
(* UAVEnv.reset and UAVEnv.step *)

\* min(all_rates): the minimum of a non-empty list
RECURSIVE min(_)
min(list) ==
  IF Len(list) = 1 THEN Head(list)
  ELSE LET m == min(Tail(list))
       IN  IF Head(list) <= m THEN Head(list) ELSE m

\* a set of integers as the list a Python loop over the dict visits
RECURSIVE in_order(_)
in_order(S) ==
  IF S = {} THEN <<>>
  ELSE LET x == CHOOSE y \in S : \A z \in S : y <= z
       IN  <<x>> \o in_order(S \ {x})

\* faulty variant: a move over the border comes back in at the other side
move_wraps(pos, action) ==
  IF action = UP THEN Pos(pos.col, (pos.row - 1) % ROWS)
  ELSE IF action = DOWN THEN Pos(pos.col, (pos.row + 1) % ROWS)
  ELSE IF action = LEFT THEN Pos((pos.col - 1) % COLS, pos.row)
  ELSE IF action = RIGHT THEN Pos((pos.col + 1) % COLS, pos.row)
  ELSE pos

\* the position after "apply the given action"
move(pos, action) ==
  IF action = UP /\ pos.row > 0 THEN Pos(pos.col, pos.row - 1)
  ELSE IF action = DOWN /\ pos.row < ROWS - 1 THEN Pos(pos.col, pos.row + 1)
  ELSE IF action = LEFT /\ pos.col > 0 THEN Pos(pos.col - 1, pos.row)
  ELSE IF action = RIGHT /\ pos.col < COLS - 1 THEN Pos(pos.col + 1, pos.row)
  ELSE pos

\* faulty variant: the rates are collected at the cell before the move
reward_cell_before_move(old_pos, new_pos) == old_pos

\* "calculate reward": the cell whose rates are collected
reward_cell(old_pos, new_pos) == new_pos

\* all_rates and reward = min(all_rates)
min_rate(pos) ==
  LET ids == in_order(UE_IDS)
      all_rates == [i \in 1 .. Len(ids) |-> rate(ids[i], pos.col, pos.row)]
  IN  min(all_rates)

\* faulty variant: the penalty counts from the step before the increment
early_penalty_before_increment(reward, step) ==
  reward * (FLIGHT_TIME - (step - 1))

\* the penalty of a return before the flight time is over
early_penalty(reward, step) == reward * (FLIGHT_TIME - step)

\* faulty variant: the reward itself is the penalty
overrun_penalty_once(reward) == reward

\* the penalty of a flight time that ends away from the return cell
overrun_penalty(reward) == reward * 10

\* faulty variant: the early-return case is tested before termination
episode_end_early_first(pos, step, reward) ==
  IF pos = END_POS
  THEN [reward |-> reward - reward * (FLIGHT_TIME - step),
        terminated |-> FALSE, truncated |-> TRUE]
  ELSE IF step = FLIGHT_TIME
  THEN [reward |-> reward - reward * 10,
        terminated |-> FALSE, truncated |-> TRUE]
  ELSE [reward |-> reward, terminated |-> FALSE, truncated |-> FALSE]

\* faulty variant: three independent tests in place of the if/elif chain
episode_end_independent(pos, step, reward) ==
  LET early == pos = END_POS
      late == step = FLIGHT_TIME
      r1 == IF early THEN reward - reward * (FLIGHT_TIME - step) ELSE reward
      r2 == IF late THEN r1 - r1 * 10 ELSE r1
  IN  [reward |-> r2, terminated |-> early /\ late, truncated |-> early \/ late]

\* faulty variant: the test "UAV failed to return?" is left out
episode_end_no_overrun(pos, step, reward) ==
  IF pos = END_POS /\ step = FLIGHT_TIME
  THEN [reward |-> reward, terminated |-> TRUE, truncated |-> FALSE]
  ELSE IF pos = END_POS
  THEN [reward |-> reward - early_penalty(reward, step),
        terminated |-> FALSE, truncated |-> TRUE]
  ELSE [reward |-> reward, terminated |-> FALSE, truncated |-> FALSE]

\* "check for termination" and the two truncation cases: the reward and the
\* two flags step() returns
episode_end(pos, step, reward) ==
  IF pos = END_POS /\ step = FLIGHT_TIME
  THEN [reward |-> reward, terminated |-> TRUE, truncated |-> FALSE]
  ELSE IF pos = END_POS
  THEN [reward |-> reward - early_penalty(reward, step),
        terminated |-> FALSE, truncated |-> TRUE]
  ELSE IF step = FLIGHT_TIME
  THEN [reward |-> reward - overrun_penalty(reward),
        terminated |-> FALSE, truncated |-> TRUE]
  ELSE [reward |-> reward, terminated |-> FALSE, truncated |-> FALSE]

\* faulty variant: the position is reset, the step counter is not
reset_keeps_step ==
  /\ uav_pos' = START_POS
  /\ uav_step' = uav_step
  /\ env_ret' = [op |-> "reset",
                 state |-> State(START_POS.col, START_POS.row, uav_step)]
  /\ UNCHANGED agent_vars
  /\ UNCHANGED file_vars

\* UAVEnv.reset()
reset ==
  /\ uav_pos' = START_POS
  /\ uav_step' = 0
  /\ env_ret' = [op |-> "reset", state |-> State(START_POS.col, START_POS.row, 0)]
  /\ UNCHANGED agent_vars
  /\ UNCHANGED file_vars

\* UAVEnv.step(action)
step(action) ==
  /\ uav_step < MaxStep
  /\ LET new_pos == move(uav_pos, action)
         new_step == uav_step + 1
         reward == min_rate(reward_cell(uav_pos, new_pos))
         end == episode_end(new_pos, new_step, reward)
     IN  /\ uav_pos' = new_pos
         /\ uav_step' = new_step
         /\ env_ret' = [op |-> "step",
                        action |-> action,
                        from |-> uav_pos,
                        rate |-> reward,
                        state |-> State(new_pos.col, new_pos.row, new_step),
                        reward |-> end.reward,
                        terminated |-> end.terminated,
                        truncated |-> end.truncated]
  /\ UNCHANGED agent_vars
  /\ UNCHANGED file_vars


\* UAVEnv.reset() left by an exception after "self.uav_pos = ..." or after
\* "self.uav_step = 0": nothing is returned
reset_interrupted ==
  /\ uav_pos' = START_POS
  /\ uav_step' \in {uav_step, 0}
  /\ env_ret' = [op |-> "interrupted", call |-> "reset"]
  /\ UNCHANGED agent_vars
  /\ UNCHANGED file_vars

\* UAVEnv.step(action) left by an exception after "apply the given action"
\* or after "move forward one time step": nothing is returned
step_interrupted(action) ==
  /\ uav_step < MaxStep
  /\ uav_pos' = move(uav_pos, action)
  /\ uav_step' \in {uav_step, uav_step + 1}
  /\ env_ret' = [op |-> "interrupted", call |-> "step"]
  /\ UNCHANGED agent_vars
  /\ UNCHANGED file_vars
-----------------------------------------------------------------------------
(* DecayingFloat (rl/rlbase.py) *)

\* A float is held as an exact decimal: the sequence <<n, d1, d2, ...>> is
\* n + d1 / DecBase + d2 / DecBase^2 + ..., n an integer of either sign and
\* every d a digit in 0 .. DecBase - 1, with no zero digit at the end. The
\* program's doubles differ from it by their rounding, of the order 1e-16.
DecBase == 10 ^ 4

\* the digit of a decimal at place i, 0 past its end
digit(a, i) == IF i >= 1 /\ i <= Len(a) THEN a[i] ELSE 0

\* The operations on floats take their operands by value: `{... : x \in {a}}`
\* and `\E x \in {a}` evaluate an operand once, however often the operation
\* refers to it.

\* a decimal without the zero digits at its end
RECURSIVE strip(_)
strip(a) ==
  CHOOSE r \in {IF Len(x) > 1 /\ x[Len(x)] = 0
                 THEN strip(SubSeq(x, 1, Len(x) - 1)) ELSE x
                 : x \in {a}} : TRUE

\* the digits of the places 1 .. i of a sequence of place values of any
\* size, with `over` carried into place i: what exceeds a place, or lacks in
\* it, is carried to the place before
RECURSIVE carry_at(_, _, _)
carry_at(c, i, over) ==
  CHOOSE r \in {IF k = 1 THEN <<t>>
                 ELSE Append(carry_at(c, k - 1, t \div DecBase), t % DecBase)
                 : k \in {i}, t \in {c[i] + over}} : TRUE

carry(c) == CHOOSE r \in {carry_at(x, Len(x), 0) : x \in {c}} : TRUE

longer(a, b) == IF Len(a) >= Len(b) THEN Len(a) ELSE Len(b)

\* a - b of two floats
sub(a, b) ==
  CHOOSE r \in {strip(carry([i \in 1 .. longer(x, y) |-> digit(x, i) - digit(y, i)]))
                 : x \in {a}, y \in {b}} : TRUE

\* a < b and a <= b of two floats
lt(a, b) ==
  \E x \in {a}, y \in {b} :
    \E i \in 1 .. longer(x, y) :
      /\ digit(x, i) < digit(y, i)
      /\ \A j \in 1 .. i - 1 : digit(x, j) = digit(y, j)

le(a, b) == ~lt(b, a)

\* the value at place p of a product: the sum of a[i] * b[p - i + 1] from
\* i on
RECURSIVE place_value(_, _, _, _)
place_value(a, b, p, i) ==
  IF i > Len(a) THEN 0
  ELSE a[i] * digit(b, p - i + 1) + place_value(a, b, p, i + 1)

zero == <<0>>
neg(a) == sub(zero, a)
abs(a) == IF lt(a, zero) THEN neg(a) ELSE a

\* a * b of two floats: the place values of the product of two floats that
\* are not negative are the sums of the products of the digits
mul(a, b) ==
  CHOOSE r \in {IF lt(a, zero) = lt(b, zero) THEN m ELSE neg(m)
                 : m \in {strip(carry([p \in 1 .. Len(x) + Len(y) - 1 |->
                                         place_value(x, y, p, 1)]))
                          : x \in {abs(a)}, y \in {abs(b)}}} : TRUE

\* the float n * 1e-8 of an integer n: 0.9 is e8(9 * 10 ^ 7)
EpsScale == 10 ^ 8
e8(n) == strip(<<n \div EpsScale, (n % EpsScale) \div DecBase, n % DecBase>>)

\* DecayingFloat(value, factor, minval, mode)
DecayingFloat(value, factor, minval, mode) ==
  [init |-> value, value |-> value, factor |-> factor, minval |-> minval,
   mode |-> mode]

\* DecayingFloat.__float__
float(d) == d.value

\* DecayingFloat.reset: the object after the call
DecayingFloat_reset(d) == [d EXCEPT !.value = d.init]

\* DecayingFloat.decay: the object after the call
decay(d) ==
  IF d.factor = None THEN d
  ELSE LET v == IF d.mode = "exp" THEN mul(d.value, Val(d.factor))
                ELSE IF d.mode = "linear" THEN sub(d.value, Val(d.factor))
                ELSE d.value
       IN  IF d.minval = None THEN [d EXCEPT !.value = v]
           ELSE IF lt(v, Val(d.minval)) THEN [d EXCEPT !.value = Val(d.minval)]
           ELSE [d EXCEPT !.value = v]

-----------------------------------------------------------------------------
(* SARSA (rl/sarsa.py) and RandomAction (rl/randomact.py) *)

\* get_action() calls the model lets a SARSA agent receive where the agent is
\* driven directly
MaxCalls == 3

\* alpha and gamma are held in tenths
HyperScale == 10 ^ 1

\* a table value or a reward is held in units of 1 / QScale; each update
\* divides by HyperScale twice
QScale == (HyperScale * HyperScale) ^ (MaxCalls - 1)

\* UAVEnv.action_space, and num_actions = len(env.action_space)
action_space == <<UP, DOWN, LEFT, RIGHT>>
num_actions == Len(action_space)

\* str(state): State.__str__
StateKey(state) ==
  "(" \o ToString(state.col) \o "," \o ToString(state.row) \o ","
      \o ToString(state.step) \o ")"

\* the states handed to get_action(): the start cell, and the cell left of
\* the obstacle, whose list lacks RIGHT
StateInputs == {State(0, 14, 0), State(8, 9, 1)}

\* the rewards handed to get_action(): None, -1 and 2
RewardInputs == {None, Some(-QScale), Some(2 * QScale)}

\* the values of alpha a caller sets: 0, the constructor's 0.3, and 1
AlphaInputs == {0, 3, HyperScale}

\* the outcomes of random.uniform(0,1) the model draws: 0 and 1 - 1e-8
UniformDraws == {e8(0), e8(EpsScale - 1)}

\* np.zeros(num_actions)
zeros == [i \in 1 .. num_actions |-> 0]

\* faulty variant: the row is created anew on every reference
q_reset(table, key) ==
  (key :> zeros) @@ [k \in DOMAIN table \ {key} |-> table[k]]

\* SARSA.q(state): the table after the call (the row is table[state])
q(table, key) ==
  IF key \in DOMAIN table THEN table ELSE (key :> zeros) @@ table

\* max of a non-empty list
RECURSIVE max(_)
max(list) ==
  IF Len(list) = 1 THEN Head(list)
  ELSE LET m == max(Tail(list))
       IN  IF Head(list) >= m THEN Head(list) ELSE m

\* row[valid]: the entries of a row at the indices of a list
take(row, valid) == [i \in 1 .. Len(valid) |-> row[valid[i] + 1]]

\* is action i kept in possible_actions?
carries_max(row, i, max_value) == row[i + 1] = max_value

\* faulty variant: the maximum is taken over every action, valid or not
possible_actions_all(row, valid) ==
  LET max_value == max(row)
  IN  SelectSeq(action_space, LAMBDA i : carries_max(row, i, max_value))

\* faulty variant: a tie is resolved to the first index (argmax)
possible_actions_first(row, valid) ==
  LET max_value == max(take(row, valid))
  IN  <<Head(SelectSeq(valid, LAMBDA i : carries_max(row, i, max_value)))>>

\* "do exploitation": the list possible_actions
possible_actions(row, valid) ==
  LET max_value == max(take(row, valid))
  IN  SelectSeq(valid, LAMBDA i : carries_max(row, i, max_value))

\* h * x for a hyperparameter h held in tenths (the division is split so
\* that no intermediate exceeds 32 bits)
times(h, x) ==
  h * (x \div HyperScale) + (h * (x % HyperScale)) \div HyperScale

\* faulty variant: the largest value of the next state is propagated
\* (off-policy, as Q-learning does)
next_value_max(table, s1, a1) == max(table[s1])

\* self.q(s1)[a1] of the update: the value propagated from the next state
next_value(table, s1, a1) == table[s1][a1 + 1]

\* the right-hand side of the update
td_value(qsa, reward, q1) ==
  qsa + times(alpha, reward + times(gamma, q1) - qsa)

\* faulty variant: the new value is written to every action of the state
sarsa_update_row(table, s, a, reward, s1, a1) ==
  LET t == q(q(table, s), s1)
      v == td_value(t[s][a + 1], reward, next_value(t, s1, a1))
  IN  [t EXCEPT ![s] = [i \in 1 .. num_actions |-> v]]

\* "update Q-table using SARSA": the table after the assignment
sarsa_update(table, s, a, reward, s1, a1) ==
  LET t == q(q(table, s), s1)
  IN  [t EXCEPT ![s][a + 1] = td_value(t[s][a + 1], reward, next_value(t, s1, a1))]

\* "skip update if no reward is given or it's run for the very first time"
does_update(state0, reward) == state0 # None /\ reward # None

\* the condition of "do exploration"
does_explore(flag, u, eps) == flag /\ lt(u, float(eps))

\* faulty variant: the decay is made in the branch and again after it
decayed_twice(eps) == decay(decay(eps))

\* "if isinstance(self.epsilon, DecayingFloat): self.epsilon.decay()":
\* epsilon is a DecayingFloat from the constructor on
decayed(eps) == decay(eps)

\* SARSA.get_action(state, reward)
SARSA_get_action(state, reward) ==
  /\ name = "SARSA"
  /\ \E u \in UniformDraws :
       LET s1 == StateKey(state)
           explore == does_explore(is_exploration, u, epsilon)
           t1 == IF explore THEN q_table ELSE q(q_table, s1)
           choices == IF explore THEN valid_actions(state)
                      ELSE possible_actions(t1[s1], valid_actions(state))
       IN  \E k \in 1 .. Len(choices) :
             LET a1 == choices[k]
                 t2 == IF does_update(current_state, reward)
                       THEN sarsa_update(t1, StateKey(Val(current_state)),
                                         Val(current_action), Val(reward), s1, a1)
                       ELSE t1
             IN  /\ q_table' = t2
                 /\ epsilon' = decayed(epsilon)
                 /\ current_state' = Some(state)
                 /\ current_action' = Some(a1)
                 /\ agent_ret' = [op |-> "get_action", state |-> state,
                                  reward |-> reward, action |-> a1,
                                  explore |-> explore]
                 /\ n_calls' = n_calls + 1
  /\ UNCHANGED <<name, is_exploration, alpha, gamma>>
  /\ UNCHANGED env_vars
  /\ UNCHANGED file_vars

\* DecayingFloat.decay left by an exception after the statement that
\* lowers the value, before the test of the floor
decay_unclamped(d) ==
  IF d.factor = None THEN d
  ELSE IF d.mode = "exp" THEN [d EXCEPT !.value = mul(d.value, Val(d.factor))]
  ELSE IF d.mode = "linear" THEN [d EXCEPT !.value = sub(d.value, Val(d.factor))]
  ELSE d

\* the fields of the agent get_action() assigns, as they are now
agent_fields ==
  [q_table |-> q_table, epsilon |-> epsilon, current_state |-> current_state,
   current_action |-> current_action]

\* the fields after each statement of get_action(state, reward) that assigns
\* one, in the order of the statements, for a call that explores or not and
\* chooses a1: the row of the exploiting branch, the decay before the floor
\* (epsilon lowered) and after it (epsilon floored), the rows the right-hand
\* side of the update refers to and its assignment, and the prior pair
get_action_stages(state, reward, explore, a1, lowered, floored) ==
  LET s1 == StateKey(state)
      t1 == IF explore THEN q_table ELSE q(q_table, s1)
      chosen == [agent_fields EXCEPT !.q_table = t1]
      decaying == <<chosen, [chosen EXCEPT !.epsilon = lowered],
                    [chosen EXCEPT !.epsilon = floored]>>
      updating ==
        IF does_update(current_state, reward)
        THEN LET s == StateKey(Val(current_state))
             IN  <<[decaying[3] EXCEPT !.q_table = q(t1, s)],
                   [decaying[3] EXCEPT !.q_table = q(q(t1, s), s1)],
                   [decaying[3] EXCEPT !.q_table =
                      sarsa_update(t1, s, Val(current_action), Val(reward), s1, a1)]>>
        ELSE <<>>
      updated == decaying \o updating
      paired == [updated[Len(updated)] EXCEPT !.current_state = Some(state)]
  IN  updated \o <<paired, [paired EXCEPT !.current_action = Some(a1)]>>

\* SARSA.get_action(state, reward) left by an exception after one of its
\* statements: nothing is returned
SARSA_get_action_interrupted(state, reward) ==
  /\ name = "SARSA"
  /\ \E u \in UniformDraws, lowered \in {decay_unclamped(epsilon)},
        floored \in {decayed(epsilon)} :
       LET explore == does_explore(is_exploration, u, epsilon)
           choices == IF explore THEN valid_actions(state)
                      ELSE possible_actions(q(q_table, StateKey(state))[StateKey(state)],
                                            valid_actions(state))
       IN  \E k \in 1 .. Len(choices) :
             \E stages \in {get_action_stages(state, reward, explore, choices[k],
                                               lowered, floored)} :
               \E i \in 1 .. Len(stages) :
                 /\ q_table' = stages[i].q_table
                 /\ epsilon' = stages[i].epsilon
                 /\ current_state' = stages[i].current_state
                 /\ current_action' = stages[i].current_action
  /\ agent_ret' = [op |-> "interrupted", call |-> "get_action"]
  /\ UNCHANGED <<name, is_exploration, alpha, gamma, n_calls>>
  /\ UNCHANGED env_vars
  /\ UNCHANGED file_vars

\* RandomAction.get_action(state, reward)
RandomAction_get_action(state, reward) ==
  /\ name = "Random Action"
  /\ \E k \in 1 .. Len(valid_actions(state)) :
       agent_ret' = [op |-> "get_action", state |-> state, reward |-> reward,
                     action |-> valid_actions(state)[k]]
  /\ UNCHANGED <<name, is_exploration, q_table, alpha, gamma, epsilon,
                 current_state, current_action, n_calls>>
  /\ UNCHANGED env_vars
  /\ UNCHANGED file_vars

\* SARSA(num_actions, exploration), then alpha set by the caller
SARSA_init(exploration, a) ==
  /\ name = "SARSA"
  /\ is_exploration = exploration
  /\ q_table = <<>>
  /\ alpha = a
  /\ gamma = 9
  /\ epsilon = DecayingFloat(e8(9 * 10 ^ 7), Some(e8(EpsScale - 1)), Some(e8(5 * 10 ^ 6)), "exp")
  /\ current_state = None
  /\ current_action = None
  /\ agent_ret = [op |-> "init"]
  /\ n_calls = 0

\* RandomAction(): the fields of SARSA do not exist
RandomAction_init ==
  /\ name = "Random Action"
  /\ is_exploration = None
  /\ q_table = <<>>
  /\ alpha = 0
  /\ gamma = 0
  /\ epsilon = None
  /\ current_state = None
  /\ current_action = None
  /\ agent_ret = [op |-> "init"]
  /\ n_calls = 0


-----------------------------------------------------------------------------
(* RL.set_exploration, RL.load_data, RL.save_data (rl/rlbase.py) and
   SARSA.q, SARSA.save_data, SARSA.load_data (rl/sarsa.py) *)

\* faulty variant: the setting is read after the assignment
original_setting_after_assignment(old, new) == new

\* "original_setting = self.is_exploration", read before the assignment
original_setting(old, new) == old

\* RL.set_exploration(exploration)
set_exploration(exploration) ==
  /\ is_exploration' = exploration
  /\ agent_ret' = [op |-> "set_exploration", exploration |-> exploration,
                   before |-> is_exploration,
                   ret |-> original_setting(is_exploration, exploration)]
  /\ UNCHANGED <<name, q_table, alpha, gamma, epsilon, current_state,
                 current_action>>
  /\ UNCHANGED env_vars
  /\ UNCHANGED file_vars

\* RL.set_exploration(exploration) left by an exception after the
\* assignment: nothing is returned
set_exploration_interrupted(exploration) ==
  /\ is_exploration' = exploration
  /\ agent_ret' = [op |-> "interrupted", call |-> "set_exploration"]
  /\ UNCHANGED <<name, q_table, alpha, gamma, epsilon, current_state,
                 current_action>>
  /\ UNCHANGED env_vars
  /\ UNCHANGED file_vars

\* a call self.q(state) from outside get_action(): the row returned
SARSA_q(key) ==
  /\ name = "SARSA"
  /\ q_table' = q(q_table, key)
  /\ agent_ret' = [op |-> "q", key |-> key, ret |-> q(q_table, key)[key]]
  /\ UNCHANGED <<name, is_exploration, alpha, gamma, epsilon, current_state,
                 current_action>>
  /\ UNCHANGED env_vars
  /\ UNCHANGED file_vars

\* the two keys save_data() adds to the table beside the state keys
ReservedKeys == {"round", "epsilon"}

\* seconds the model lets the clock advance
MaxClock == 1

\* the seconds localtime() can read: the second of the last reading, or the
\* next one
Now == {t \in {clock, clock + 1} : t <= MaxClock}

\* f"{self.name}-load.json"
load_filename(n) == n \o "-load.json"

\* strftime(f"{self.name}-[%Y-%m-%d][%Hh%Mm%Ss].json", localtime()): the
\* name carries the time to the second and nothing else
save_filename(n, t) == n \o "-[" \o ToString(t) \o "s].json"

\* json.dump of one entry with NpEncoder: the number under a reserved key is
\* written as a number, the ndarray under a state key as the array of
\* obj.tolist()
json_value(key, x) ==
  IF key \in ReservedKeys THEN [type |-> "number", value |-> x]
  ELSE [type |-> "array", items |-> [i \in 1 .. Len(x) |-> x[i]]]

\* json.dump(self.q_table, fp, cls=NpEncoder, indent=4): the text written is
\* a JSON document, an object of one member per key
json_dump(table) ==
  [json |-> TRUE, members |-> [k \in DOMAIN table |-> json_value(k, table[k])]]

\* the text of a file that open(filename, "w") has emptied and json.dump has
\* not written to its end: no JSON document
cut_json == [json |-> FALSE]

\* the Python value json.load() builds of a JSON value: a number or a list
python_value(v) == IF v.type = "number" THEN v.value ELSE v.items

\* json.load(fp): the dict of a text that is a document (of a text that is
\* none json.load raises JSONDecodeError)
json_load(text) == [k \in DOMAIN text.members |-> python_value(text.members[k])]

\* np.array(list)
np_array(list) == [i \in 1 .. Len(list) |-> list[i]]

\* faulty variant: the rows are repopulated, epsilon is left as it is
loaded_epsilon_kept(eps, loaded) == eps

\* the loop of load_data() at the key "epsilon": epsilon is a DecayingFloat
loaded_epsilon(eps, loaded) ==
  IF "epsilon" \in DOMAIN loaded THEN [eps EXCEPT !.value = loaded["epsilon"]]
  ELSE eps

\* the loop of load_data() at the other keys: "round" is skipped, "epsilon"
\* stays in the table as loaded, a state's list becomes an ndarray
loaded_table(loaded) ==
  [k \in DOMAIN loaded |->
     IF k \in ReservedKeys THEN loaded[k] ELSE np_array(loaded[k])]

\* faulty variant: a missing file starts the agent afresh
not_found_fresh(table, eps, state0, action0) ==
  [ret |-> -1, table |-> <<>>, epsilon |-> DecayingFloat_reset(eps),
   state |-> None, action |-> None]

\* the else branch of load_data(): the file does not exist
not_found(table, eps, state0, action0) ==
  [ret |-> -1, table |-> table, epsilon |-> eps, state |-> state0,
   action |-> action0]

\* SARSA.load_data() that returns: the file is not there, or is a document
SARSA_load_data ==
  /\ name = "SARSA"
  /\ load_filename(name) \in DOMAIN disk => disk[load_filename(name)].json
  /\ LET filename == load_filename(name)
         exists == filename \in DOMAIN disk
         loaded == json_load(disk[filename])
         absent == not_found(q_table, epsilon, current_state, current_action)
     IN  /\ q_table' = IF exists THEN loaded_table(loaded) ELSE absent.table
         /\ epsilon' = IF exists THEN loaded_epsilon(epsilon, loaded)
                       ELSE absent.epsilon
         /\ current_state' = IF exists THEN current_state ELSE absent.state
         /\ current_action' = IF exists THEN current_action ELSE absent.action
         /\ agent_ret' = [op |-> "load_data", found |-> exists,
                          ret |-> IF exists THEN loaded["round"] ELSE absent.ret]
  /\ UNCHANGED <<name, is_exploration, alpha, gamma>>
  /\ UNCHANGED env_vars
  /\ UNCHANGED file_vars

\* SARSA.load_data() of a file that is no JSON document: json.load raises
\* JSONDecodeError before anything is assigned
SARSA_load_data_raises ==
  /\ name = "SARSA"
  /\ load_filename(name) \in DOMAIN disk
  /\ ~disk[load_filename(name)].json
  /\ agent_ret' = [op |-> "raised", call |-> "load_data"]
  /\ UNCHANGED <<name, is_exploration, q_table, alpha, gamma, epsilon,
                 current_state, current_action>>
  /\ UNCHANGED env_vars
  /\ UNCHANGED file_vars

\* SARSA.load_data() left by an exception after "self.q_table =
\* json.load(fp)": the table is the loaded one (a list and the ndarray made
\* of it are the same row here), epsilon is assigned or not yet
SARSA_load_data_interrupted ==
  /\ name = "SARSA"
  /\ load_filename(name) \in DOMAIN disk
  /\ disk[load_filename(name)].json
  /\ LET loaded == json_load(disk[load_filename(name)])
     IN  /\ q_table' = loaded_table(loaded)
         /\ epsilon' \in {epsilon, loaded_epsilon(epsilon, loaded)}
  /\ agent_ret' = [op |-> "interrupted", call |-> "load_data"]
  /\ UNCHANGED <<name, is_exploration, alpha, gamma, current_state,
                 current_action>>
  /\ UNCHANGED env_vars
  /\ UNCHANGED file_vars

\* SARSA.save_data(round_id), with localtime() reading the second `now`
SARSA_save_data(round_id, now) ==
  /\ name = "SARSA"
  /\ LET filename == save_filename(name, now)
         table == ("epsilon" :> float(epsilon))
                    @@ (("round" :> round_id) @@ q_table)
     IN  /\ q_table' = table
         /\ disk' = (filename :> json_dump(table)) @@ disk
         /\ agent_ret' = [op |-> "save_data", round_id |-> round_id, ret |-> TRUE]
         /\ save_ret' = [op |-> "save_data", round_id |-> round_id,
                         filename |-> filename,
                         existed |-> filename \in DOMAIN disk,
                         table |-> q_table,
                         epsilon |-> float(epsilon)]
  /\ clock' = now
  /\ UNCHANGED <<name, is_exploration, alpha, gamma, epsilon, current_state,
                 current_action>>
  /\ UNCHANGED env_vars

\* the table, the files and the second last read after each statement of
\* save_data(round_id), in the order of the statements: the two keys added,
\* localtime() read, the file opened for writing and so emptied (a file
\* that had the name loses its text), json.dump cut short, json.dump done
save_data_stages(round_id, now) ==
  LET filename == save_filename(name, now)
      with_round == ("round" :> round_id) @@ q_table
      table == ("epsilon" :> float(epsilon)) @@ with_round
  IN  <<[q_table |-> with_round, disk |-> disk, clock |-> clock],
        [q_table |-> table, disk |-> disk, clock |-> clock],
        [q_table |-> table, disk |-> disk, clock |-> now],
        [q_table |-> table, disk |-> (filename :> cut_json) @@ disk,
         clock |-> now],
        [q_table |-> table, disk |-> (filename :> json_dump(table)) @@ disk,
         clock |-> now]>>

\* SARSA.save_data(round_id) left by an exception after one of its
\* statements: nothing is returned
SARSA_save_data_interrupted(round_id, now) ==
  /\ name = "SARSA"
  /\ \E stages \in {save_data_stages(round_id, now)} :
       \E i \in 1 .. Len(stages) :
         /\ q_table' = stages[i].q_table
         /\ disk' = stages[i].disk
         /\ clock' = stages[i].clock
  /\ agent_ret' = [op |-> "interrupted", call |-> "save_data"]
  /\ UNCHANGED <<name, is_exploration, alpha, gamma, epsilon, current_state,
                 current_action, save_ret>>
  /\ UNCHANGED env_vars

\* RL.load_data(), which RandomAction inherits
RL_load_data ==
  /\ name = "Random Action"
  /\ agent_ret' = [op |-> "load_data", found |-> FALSE, ret |-> -1]
  /\ UNCHANGED <<name, is_exploration, q_table, alpha, gamma, epsilon,
                 current_state, current_action, n_calls>>
  /\ UNCHANGED env_vars
  /\ UNCHANGED file_vars

\* RL.save_data(round), which RandomAction inherits
RL_save_data(round_id) ==
  /\ name = "Random Action"
  /\ agent_ret' = [op |-> "save_data", round_id |-> round_id, ret |-> FALSE]
  /\ UNCHANGED <<name, is_exploration, q_table, alpha, gamma, epsilon,
                 current_state, current_action, n_calls>>
  /\ UNCHANGED env_vars
  /\ UNCHANGED file_vars
-----------------------------------------------------------------------------
(* The specifications *)

\* UAVEnv.__init__ ends with self.reset()
EnvInit ==
  /\ uav_pos = START_POS
  /\ uav_step = 0
  /\ env_ret = [op |-> "reset", state |-> State(START_POS.col, START_POS.row, 0)]

\* a working directory without files, at the second the program starts
NoFiles ==
  /\ disk = <<>>
  /\ clock = 0
  /\ save_ret = [op |-> "none"]

\* uav.py is not running
MainOff ==
  /\ switches = None
  /\ main = [pc |-> "off"]

EnvReset == reset /\ UNCHANGED main_vars

EnvStep == \E action \in ActionInputs : step(action) /\ UNCHANGED main_vars

EnvNext == EnvReset \/ EnvStep

\* the environment as constructed, beside the SARSA agent as constructed
\* (exploration on, alpha 0.3)
EnvAloneInit == EnvInit /\ SARSA_init(TRUE, 3) /\ NoFiles /\ MainOff

\* the environment alone, driven by any sequence of reset() and step() calls
EnvSpec == EnvAloneInit /\ [][EnvNext]_vars

\* step() given an action of the valid actions of the state the environment
\* returned last
EnvStepValid ==
  \E k \in 1 .. Len(valid_actions(env_ret.state)) :
    step(valid_actions(env_ret.state)[k]) /\ UNCHANGED main_vars

ValidNext == EnvReset \/ EnvStepValid

\* the environment driven by a caller that keeps to the valid actions
ValidSpec == EnvAloneInit /\ [][ValidNext]_vars

AgentInit ==
  /\ EnvInit
  /\ NoFiles
  /\ MainOff
  /\ \/ \E exploration \in BOOLEAN, a \in AlphaInputs : SARSA_init(exploration, a)
     \/ RandomAction_init

AgentCallSARSA ==
  /\ n_calls < MaxCalls
  /\ \E state \in StateInputs, reward \in RewardInputs :
       SARSA_get_action(state, reward)
  /\ UNCHANGED main_vars

AgentCallRandom ==
  /\ \E state \in StateInputs, reward \in RewardInputs :
       RandomAction_get_action(state, reward)
  /\ UNCHANGED main_vars

AgentNext == AgentCallSARSA \/ AgentCallRandom

\* an agent alone, driven by any sequence of get_action() calls
AgentSpec == AgentInit /\ [][AgentNext]_vars

-----------------------------------------------------------------------------
(* A DecayingFloat on its own, driven by its two methods *)

\* decay() calls the model lets a DecayingFloat receive
MaxDecays == 5

\* the initial values a caller constructs with: 0.03, 0.05 and 0.9
ValueInputs == {e8(3 * 10 ^ 6), e8(5 * 10 ^ 6), e8(9 * 10 ^ 7)}

\* the factors: none, 0.5, 1 - 1e-8 and 0.3
FactorInputs ==
  {None, Some(e8(5 * 10 ^ 7)), Some(e8(EpsScale - 1)), Some(e8(3 * 10 ^ 7))}

\* the floors: none and 0.05
FloorInputs == {None, Some(e8(5 * 10 ^ 6))}

\* the modes: the two the class knows and one it does not
ModeInputs == {"exp", "linear", "step"}

\* DecayingFloat(value, factor, minval, mode), with no agent around it
FloatInit ==
  /\ EnvInit
  /\ NoFiles
  /\ MainOff
  /\ name = "DecayingFloat"
  /\ is_exploration = None
  /\ q_table = <<>>
  /\ alpha = 0
  /\ gamma = 0
  /\ \E value \in ValueInputs, factor \in FactorInputs, minval \in FloorInputs,
        mode \in ModeInputs :
       epsilon = DecayingFloat(value, factor, minval, mode)
  /\ current_state = None
  /\ current_action = None
  /\ agent_ret = [op |-> "init"]
  /\ n_calls = 0

\* epsilon.decay()
FloatDecay ==
  /\ n_calls < MaxDecays
  /\ epsilon' = decay(epsilon)
  /\ agent_ret' = [op |-> "decay"]
  /\ n_calls' = n_calls + 1
  /\ UNCHANGED <<name, is_exploration, q_table, alpha, gamma, current_state,
                 current_action>>
  /\ UNCHANGED <<env_vars, file_vars, main_vars>>

\* epsilon.reset()
FloatReset ==
  /\ epsilon' = DecayingFloat_reset(epsilon)
  /\ agent_ret' = [op |-> "reset"]
  /\ UNCHANGED <<name, is_exploration, q_table, alpha, gamma, current_state,
                 current_action, n_calls>>
  /\ UNCHANGED <<env_vars, file_vars, main_vars>>

FloatNext == FloatDecay \/ FloatReset

\* a DecayingFloat driven by any sequence of decay() and reset() calls
FloatSpec == FloatInit /\ [][FloatNext]_vars

-----------------------------------------------------------------------------
(* The SARSA agent driven through its methods get_action, q and
   set_exploration *)

\* method calls the model lets the agent receive
MaxApiCalls == 5

\* the state handed to get_action(): the start cell
ApiStates == {State(0, 14, 0)}

\* the rewards handed to get_action(): None and 2
ApiRewards == {None, Some(2 * QScale)}

\* the keys handed to q(): the key of the start cell and one get_action()
\* is never given
KeyInputs == {StateKey(State(0, 14, 0)), StateKey(State(8, 9, 1))}

ApiInit ==
  /\ EnvInit
  /\ NoFiles
  /\ MainOff
  /\ \E exploration \in BOOLEAN : SARSA_init(exploration, 3)

ApiGetAction ==
  /\ n_calls < MaxApiCalls
  /\ \E state \in ApiStates, reward \in ApiRewards :
       SARSA_get_action(state, reward)
  /\ UNCHANGED main_vars

\* a call of another method, counted
Counted ==
  /\ n_calls < MaxApiCalls
  /\ n_calls' = n_calls + 1
  /\ UNCHANGED main_vars

ApiQ == Counted /\ \E key \in KeyInputs : SARSA_q(key)

ApiSetExploration ==
  Counted /\ \E exploration \in BOOLEAN : set_exploration(exploration)

ApiNext == ApiGetAction \/ ApiQ \/ ApiSetExploration

\* the agent driven by any sequence of calls of these methods
ApiSpec == ApiInit /\ [][ApiNext]_vars

-----------------------------------------------------------------------------
(* The SARSA agent and its snapshot files *)

\* the round numbers handed to save_data()
RoundInputs == {1, 7}

\* the reward handed to get_action(): 2
StoreRewards == {Some(2 * QScale)}

StoreInit ==
  /\ EnvInit
  /\ NoFiles
  /\ MainOff
  /\ SARSA_init(TRUE, 3)

StoreGetAction ==
  /\ n_calls < MaxApiCalls
  /\ \E state \in ApiStates, reward \in StoreRewards :
       SARSA_get_action(state, reward)
  /\ UNCHANGED main_vars

StoreSave ==
  Counted /\ \E round_id \in RoundInputs, now \in Now : SARSA_save_data(round_id, now)

StoreLoad == Counted /\ SARSA_load_data

\* the user presents a snapshot as the load file: a copy under the load name
Present ==
  /\ \E filename \in DOMAIN disk \ {load_filename(name)} :
       disk' = (load_filename(name) :> disk[filename]) @@ disk
  /\ UNCHANGED <<clock, save_ret>>
  /\ UNCHANGED <<env_vars, agent_vars, main_vars>>

StoreNext == StoreGetAction \/ StoreSave \/ StoreLoad \/ Present

\* the agent driven by any sequence of get_action(), save_data() and
\* load_data() calls, and its files
StoreSpec == StoreInit /\ [][StoreNext]_vars

-----------------------------------------------------------------------------
(* uav.py: the switches, the episode loop and the closing save.

   The script builds ai = Q_Learning(...); the class Q_Learning is not part
   of the sources modelled here, so the loop is run with the two policies the
   script names beside it, RandomAction() and SARSA(len(env.action_space),
   exploration=EXPLORATION_FLAG). Rendering, the frame rate FPS with the
   scroll events that set it, the printed texts and what exists only to be
   printed (episode_reward, the entries of the lists of Episode) are left
   out; of the lists of Episode their length is kept, the number of episode
   outcomes stored. `main` holds the script's variables and the place it has
   reached; a variable not yet assigned is None, an assigned one is
   Some(value). KeyboardInterrupt arrives between two statements of the
   script or inside a call the script makes; inside the try block it is
   caught and the script goes on to close and save, outside of it (while
   loading, closing and saving) it ends the script with a traceback, the
   place "raised", as does an exception load_data() raises. *)

\* the switches of the three run modes of the script
stateless_mode ==
  [SHOW_ANIMATION_FLAG |-> TRUE, LOAD_DATA_FLAG |-> FALSE,
   SAVE_DATA_FLAG |-> FALSE, EXPLORATION_FLAG |-> TRUE,
   SAMPLE_FLAG |-> FALSE, SAMPLE_INTERVAL |-> 10000]

training_mode ==
  [SHOW_ANIMATION_FLAG |-> FALSE, LOAD_DATA_FLAG |-> TRUE,
   SAVE_DATA_FLAG |-> TRUE, EXPLORATION_FLAG |-> TRUE,
   SAMPLE_FLAG |-> TRUE, SAMPLE_INTERVAL |-> 10000]

testing_mode ==
  [SHOW_ANIMATION_FLAG |-> TRUE, LOAD_DATA_FLAG |-> TRUE,
   SAVE_DATA_FLAG |-> FALSE, EXPLORATION_FLAG |-> FALSE,
   SAMPLE_FLAG |-> TRUE, SAMPLE_INTERVAL |-> 1]

RunModes == {stateless_mode, training_mode, testing_mode}

\* episodes one run of the script is let begin
MaxEpisodes == 2

\* steps an episode is let take: an episode that is not back at the start
\* cell by then is left unfinished
MaxFlight == 4

\* get_action() calls the policy is let take in one run of the script
MaxTrainCalls == 7

\* the rounds of the snapshots found under the load name: an interrupted
\* short run, and a run one episode before a sample is due
SnapshotRounds == {3, 9999}

\* a snapshot an earlier run saved: the round, epsilon and the row of the
\* start state, where only UP and RIGHT are ever chosen
Snapshot(round_id) ==
  json_dump(("epsilon" :> e8(8 * 10 ^ 7))
              @@ (("round" :> round_id)
              @@ (StateKey(State(0, 14, 0)) :> <<-240, 0, 0, 1300>>)))

\* the files of the working directory when the script starts: none, a
\* snapshot under the load name, or under that name a file whose writing was
\* cut short
DiskInputs ==
  {<<>>, load_filename("SARSA") :> cut_json}
    \cup {(load_filename("SARSA") :> Snapshot(r)) : r \in SnapshotRounds}

\* "initialize the UAV environment" and "initialize episode variables";
\* episode_len is len(episode.reward), the outcomes stored in `episode`
episode_variables(state) ==
  [pc |-> "load",
   episode_len |-> 0,
   state |-> state,
   running_flag |-> TRUE,
   pause_flag |-> FALSE,
   episode_id |-> 1,
   reward |-> None,
   action |-> None,
   terminated |-> None,
   truncated |-> None,
   progress |-> None,
   original_value |-> None]

main_init == episode_variables(env_ret.state)

\* the script up to "load existing data to resume progress?"; the files
\* are varied where the run reads one, with SARSA and LOAD_DATA_FLAG on
Init ==
  /\ EnvInit
  /\ switches \in RunModes
  /\ \/ /\ SARSA_init(switches.EXPLORATION_FLAG, 3)
        /\ disk \in IF switches.LOAD_DATA_FLAG THEN DiskInputs ELSE {<<>>}
     \/ /\ RandomAction_init
        /\ disk = <<>>
  /\ clock = 0
  /\ save_ret = [op |-> "none"]
  /\ main = main_init

\* ai.get_action(state, reward) of the policy the script runs
ai_get_action(state, reward) ==
  \/ SARSA_get_action(state, reward)
  \/ RandomAction_get_action(state, reward)

\* ai.load_data()
ai_load_data ==
  \/ SARSA_load_data /\ UNCHANGED n_calls
  \/ RL_load_data

\* ai.save_data(round), the clock reading the second `now`
ai_save_data(round_id, now) ==
  \/ SARSA_save_data(round_id, now) /\ UNCHANGED n_calls
  \/ RL_save_data(round_id)


\* faulty variant: the episode is taken from the progress, found or not
resumed_episode_unchecked(progress, episode_id) == progress + 1

\* "if progress!=-1: episode_id = progress+1"
resumed_episode(progress, episode_id) ==
  IF progress # -1 THEN progress + 1 ELSE episode_id

\* "if LOAD_DATA_FLAG: progress = ai.load_data()" and the episode resumed
LoadData ==
  /\ main.pc = "load"
  /\ switches.LOAD_DATA_FLAG
  /\ ai_load_data
  /\ main' = [main EXCEPT
                !.progress = Some(agent_ret'.ret),
                !.episode_id = resumed_episode(agent_ret'.ret, main.episode_id),
                !.pc = "loop"]
  /\ UNCHANGED switches

\* "progress = ai.load_data()" of a file that is no JSON document: the
\* exception is not caught
LoadDataRaises ==
  /\ main.pc = "load"
  /\ switches.LOAD_DATA_FLAG
  /\ SARSA_load_data_raises
  /\ main' = [main EXCEPT !.pc = "raised"]
  /\ UNCHANGED <<n_calls, switches>>

\* KeyboardInterrupt before the try block, outside of load_data()
InterruptAtLoad ==
  /\ main.pc = "load"
  /\ main' = [main EXCEPT !.pc = "raised"]
  /\ UNCHANGED <<env_vars, agent_vars, file_vars, switches>>

\* KeyboardInterrupt inside ai.load_data()
InterruptInLoadData ==
  /\ main.pc = "load"
  /\ switches.LOAD_DATA_FLAG
  /\ SARSA_load_data_interrupted
  /\ main' = [main EXCEPT !.pc = "raised"]
  /\ UNCHANGED <<n_calls, switches>>

\* KeyboardInterrupt after "progress = ai.load_data()" and before the
\* episode is resumed
InterruptAfterLoadData ==
  /\ main.pc = "load"
  /\ switches.LOAD_DATA_FLAG
  /\ ai_load_data
  /\ main' = [main EXCEPT !.progress = Some(agent_ret'.ret), !.pc = "raised"]
  /\ UNCHANGED switches

\* LOAD_DATA_FLAG is off: the script goes on to the loop
SkipLoad ==
  /\ main.pc = "load"
  /\ ~switches.LOAD_DATA_FLAG
  /\ main' = [main EXCEPT !.pc = "loop"]
  /\ UNCHANGED <<env_vars, agent_vars, file_vars, switches>>

\* the events the window hands to one iteration, as far as the script
\* tells them apart: is there an EVENT_QUIT among them, and is the number of
\* clicks of the left button odd
QuitEvents == IF switches.SHOW_ANIMATION_FLAG THEN BOOLEAN ELSE {FALSE}
ClickEvents == IF switches.SHOW_ANIMATION_FLAG THEN BOOLEAN ELSE {FALSE}

\* the script's flags after the events of "for event in env.get_event()"
after_events(quit, click) ==
  [main EXCEPT
     !.running_flag = IF quit THEN FALSE ELSE main.running_flag,
     !.pause_flag = IF click THEN ~main.pause_flag ELSE main.pause_flag]

\* one iteration from "while running_flag" to "if pause_flag: continue"
PollEvents ==
  /\ main.pc = "loop"
  /\ main.running_flag
  /\ \E quit \in QuitEvents, click \in ClickEvents :
       main' = [after_events(quit, click) EXCEPT
                  !.pc = IF after_events(quit, click).pause_flag
                         THEN "loop" ELSE "act"]
  /\ UNCHANGED <<env_vars, agent_vars, file_vars, switches>>

\* "execute an action": "action = ai.get_action(state,reward)"
ExecuteAction ==
  /\ main.pc = "act"
  /\ ai_get_action(main.state, main.reward)
  /\ main' = [main EXCEPT !.action = Some(agent_ret'.action), !.pc = "step"]
  /\ UNCHANGED switches

\* "if terminated or truncated"
episode_ended(ret) == ret.terminated \/ ret.truncated

\* "state, reward, terminated, truncated, info = env.step(action)" and the
\* test for the end of the episode
StepEnv ==
  /\ main.pc = "step"
  /\ step(Val(main.action))
  /\ main' = [main EXCEPT
                !.state = env_ret'.state,
                !.reward = Some(env_ret'.reward),
                !.terminated = Some(env_ret'.terminated),
                !.truncated = Some(env_ret'.truncated),
                !.pc = IF episode_ended(env_ret') THEN "update" ELSE "loop"]
  /\ UNCHANGED switches

\* "if SAMPLE_FLAG: if episode_id==1 or episode_id%SAMPLE_INTERVAL==0"
sample_due(flag, episode_id, interval) ==
  flag /\ (episode_id = 1 \/ episode_id % interval = 0)

\* "update the AI with the reward": the call at the end of an episode
UpdateAtEnd ==
  /\ main.pc = "update"
  /\ ai_get_action(main.state, main.reward)
  /\ main' = [main EXCEPT !.action = Some(agent_ret'.action), !.pc = "store"]
  /\ UNCHANGED switches

\* "store episode outcome" and the test for a sample
StoreOutcome ==
  /\ main.pc = "store"
  /\ main' = [main EXCEPT
                !.episode_len = main.episode_len + 1,
                !.pc = IF sample_due(switches.SAMPLE_FLAG, main.episode_id,
                                     switches.SAMPLE_INTERVAL)
                       THEN "sample" ELSE "next"]
  /\ UNCHANGED <<env_vars, agent_vars, file_vars, switches>>

\* "original_value = ai.set_exploration(False)"
SampleStopExploration ==
  /\ main.pc = "sample"
  /\ set_exploration(FALSE)
  /\ main' = [main EXCEPT
                !.original_value = Some(agent_ret'.ret),
                !.pc = "sample_reset"]
  /\ UNCHANGED <<n_calls, switches>>

\* "state, info = env.reset()" before the sample
SampleReset ==
  /\ main.pc = "sample_reset"
  /\ reset
  /\ main' = [main EXCEPT !.state = env_ret'.state, !.pc = "sample_loop"]
  /\ UNCHANGED switches

\* "action = ai.get_action(state,reward)" of the sample
SampleAction ==
  /\ main.pc = "sample_loop"
  /\ ai_get_action(main.state, main.reward)
  /\ main' = [main EXCEPT !.action = Some(agent_ret'.action), !.pc = "sample_step"]
  /\ UNCHANGED switches

\* "state, reward, terminated, truncated, info = env.step(action)" of the
\* sample and the test for its end
SampleStep ==
  /\ main.pc = "sample_step"
  /\ step(Val(main.action))
  /\ main' = [main EXCEPT
                !.state = env_ret'.state,
                !.reward = Some(env_ret'.reward),
                !.terminated = Some(env_ret'.terminated),
                !.truncated = Some(env_ret'.truncated),
                !.pc = IF episode_ended(env_ret') THEN "sample_end"
                       ELSE "sample_loop"]
  /\ UNCHANGED switches

\* "ai.set_exploration(original_value)" and the break
SampleResume ==
  /\ main.pc = "sample_end"
  /\ set_exploration(Val(main.original_value))
  /\ main' = [main EXCEPT !.pc = "next"]
  /\ UNCHANGED <<n_calls, switches>>

\* "reset to start a new episode": "state, info = env.reset()"
NewEpisode ==
  /\ main.pc = "next"
  /\ reset
  /\ main' = [main EXCEPT !.state = env_ret'.state, !.pc = "count"]
  /\ UNCHANGED switches

\* "episode_id += 1"
CountEpisode ==
  /\ main.pc = "count"
  /\ main' = [main EXCEPT !.episode_id = main.episode_id + 1, !.pc = "loop"]
  /\ UNCHANGED <<env_vars, agent_vars, file_vars, switches>>

\* the places of the script inside the try block
InTry ==
  {"loop", "act", "step", "update", "store", "sample", "sample_reset",
   "sample_loop", "sample_step", "sample_end", "next", "count"}

\* KeyboardInterrupt between two statements of the script
Interrupt ==
  /\ main.pc \in InTry
  /\ main' = [main EXCEPT !.pc = "close"]
  /\ UNCHANGED <<env_vars, agent_vars, file_vars, switches>>

\* KeyboardInterrupt among the events of "for event in env.get_event()":
\* the events before it have set the flags
InterruptInPoll ==
  /\ main.pc = "loop"
  /\ main.running_flag
  /\ \E quit \in QuitEvents, click \in ClickEvents :
       main' = [after_events(quit, click) EXCEPT !.pc = "close"]
  /\ UNCHANGED <<env_vars, agent_vars, file_vars, switches>>

\* the places where the script calls ai.get_action, env.step, env.reset and
\* ai.set_exploration
AtGetAction == {"act", "update", "sample_loop"}
AtStep == {"step", "sample_step"}
AtReset == {"sample_reset", "next"}
AtSetExploration == {"sample", "sample_end"}

\* KeyboardInterrupt inside ai.get_action(state,reward): the policy is left
\* as the statements made so far have set it, `action` is not assigned
InterruptInGetAction ==
  /\ main.pc \in AtGetAction
  /\ SARSA_get_action_interrupted(main.state, main.reward)
  /\ main' = [main EXCEPT !.pc = "close"]
  /\ UNCHANGED switches

\* KeyboardInterrupt inside env.step(action)
InterruptInStep ==
  /\ main.pc \in AtStep
  /\ step_interrupted(Val(main.action))
  /\ main' = [main EXCEPT !.pc = "close"]
  /\ UNCHANGED switches

\* KeyboardInterrupt inside env.reset()
InterruptInReset ==
  /\ main.pc \in AtReset
  /\ reset_interrupted
  /\ main' = [main EXCEPT !.pc = "close"]
  /\ UNCHANGED switches

\* KeyboardInterrupt inside ai.set_exploration(...), after the assignment
InterruptInSetExploration ==
  /\ main.pc \in AtSetExploration
  /\ set_exploration_interrupted(IF main.pc = "sample" THEN FALSE
                                 ELSE Val(main.original_value))
  /\ main' = [main EXCEPT !.pc = "close"]
  /\ UNCHANGED <<n_calls, switches>>

\* the loop ends after EVENT_QUIT
LeaveLoop ==
  /\ main.pc = "loop"
  /\ ~main.running_flag
  /\ main' = [main EXCEPT !.pc = "close"]
  /\ UNCHANGED <<env_vars, agent_vars, file_vars, switches>>

\* faulty variant: the episode the loop is in is counted as completed
saved_round_current(episode_id) == episode_id

\* the round handed to save_data
saved_round(episode_id) == episode_id - 1

\* "if SAVE_DATA_FLAG: ai.save_data(episode_id-1)"
SaveData ==
  /\ main.pc = "close"
  /\ switches.SAVE_DATA_FLAG
  /\ \E now \in Now : ai_save_data(saved_round(main.episode_id), now)
  /\ main' = [main EXCEPT !.pc = "done"]
  /\ UNCHANGED switches

\* SAVE_DATA_FLAG is off: the script ends
SkipSave ==
  /\ main.pc = "close"
  /\ ~switches.SAVE_DATA_FLAG
  /\ main' = [main EXCEPT !.pc = "done"]
  /\ UNCHANGED <<env_vars, agent_vars, file_vars, switches>>

\* KeyboardInterrupt after the try block, outside of save_data(): in
\* env.close() or between the statements
InterruptAtClose ==
  /\ main.pc = "close"
  /\ main' = [main EXCEPT !.pc = "raised"]
  /\ UNCHANGED <<env_vars, agent_vars, file_vars, switches>>

\* KeyboardInterrupt inside ai.save_data(episode_id-1)
InterruptInSaveData ==
  /\ main.pc = "close"
  /\ switches.SAVE_DATA_FLAG
  /\ \E now \in Now :
       SARSA_save_data_interrupted(saved_round(main.episode_id), now)
  /\ main' = [main EXCEPT !.pc = "raised"]
  /\ UNCHANGED <<n_calls, switches>>

\* episodes the run has begun
episodes_begun ==
  main.episode_id
    - resumed_episode(IF main.progress = None THEN -1 ELSE Val(main.progress), 1)
    + 1

\* the two calls that begin a step are made within the bounds
ExecuteActionBounded ==
  /\ episodes_begun <= MaxEpisodes
  /\ uav_step < MaxFlight
  /\ n_calls < MaxTrainCalls
  /\ ExecuteAction

SampleActionBounded ==
  /\ uav_step < MaxFlight
  /\ n_calls < MaxTrainCalls
  /\ SampleAction

\* a call of the policy that is interrupted is begun within the same bounds
InterruptInGetActionBounded ==
  /\ main.pc = "act" => episodes_begun <= MaxEpisodes
  /\ main.pc \in {"act", "sample_loop"}
       => uav_step < MaxFlight /\ n_calls < MaxTrainCalls
  /\ InterruptInGetAction

Next ==
  \/ LoadData
  \/ LoadDataRaises
  \/ InterruptAtLoad
  \/ InterruptInLoadData
  \/ InterruptAfterLoadData
  \/ SkipLoad
  \/ PollEvents
  \/ ExecuteActionBounded
  \/ StepEnv
  \/ UpdateAtEnd
  \/ StoreOutcome
  \/ SampleStopExploration
  \/ SampleReset
  \/ SampleActionBounded
  \/ SampleStep
  \/ SampleResume
  \/ NewEpisode
  \/ CountEpisode
  \/ Interrupt
  \/ InterruptInPoll
  \/ InterruptInGetActionBounded
  \/ InterruptInStep
  \/ InterruptInReset
  \/ InterruptInSetExploration
  \/ LeaveLoop
  \/ SaveData
  \/ SkipSave
  \/ InterruptAtClose
  \/ InterruptInSaveData

\* uav.py run with either policy in one of its three modes
Spec == Init /\ [][Next]_vars

-----------------------------------------------------------------------------
(* The episode loop left to run episodes of any length. The policy is
   RandomAction, which can take every valid action at every state and so
   every path a policy that keeps to the valid actions can take; the mode is
   the training mode, with no window and a sample after the first episode. *)

FlightInit ==
  /\ EnvInit
  /\ switches = training_mode
  /\ RandomAction_init
  /\ NoFiles
  /\ main = main_init

\* the loop begins no more than MaxEpisodes episodes
ExecuteActionOfFlight == episodes_begun <= MaxEpisodes /\ ExecuteAction

FlightNext ==
  \/ LoadData
  \/ PollEvents
  \/ ExecuteActionOfFlight
  \/ StepEnv
  \/ UpdateAtEnd
  \/ StoreOutcome
  \/ SampleStopExploration
  \/ SampleReset
  \/ SampleAction
  \/ SampleStep
  \/ SampleResume
  \/ NewEpisode
  \/ CountEpisode

\* the script run in training mode with the random policy, not interrupted
FlightSpec == FlightInit /\ [][FlightNext]_vars

-----------------------------------------------------------------------------
(* A training run and the run that resumes it: the script is run in training
   mode with SARSA, is interrupted and saves its snapshot; the user presents
   that snapshot under the load name and runs the script in testing mode,
   which loads it and enters its loop. *)

ResumeInit ==
  /\ EnvInit
  /\ switches = training_mode
  /\ SARSA_init(switches.EXPLORATION_FLAG, 3)
  /\ disk \in DiskInputs
  /\ clock = 0
  /\ save_ret = [op |-> "none"]
  /\ main = main_init

\* the snapshot the training run saved is copied to the load name and the
\* script is started again with the switches of the testing mode: a new
\* environment, a new SARSA and new episode variables
RunAgain ==
  /\ main.pc = "done"
  /\ switches.SAVE_DATA_FLAG
  /\ save_ret.op = "save_data"
  /\ disk' = (load_filename(name) :> disk[save_ret.filename]) @@ disk
  /\ switches' = testing_mode
  /\ uav_pos' = START_POS
  /\ uav_step' = 0
  /\ env_ret' = [op |-> "reset", state |-> State(START_POS.col, START_POS.row, 0)]
  /\ is_exploration' = switches'.EXPLORATION_FLAG
  /\ q_table' = <<>>
  /\ epsilon' = DecayingFloat(e8(9 * 10 ^ 7), Some(e8(EpsScale - 1)),
                            Some(e8(5 * 10 ^ 6)), "exp")
  /\ current_state' = None
  /\ current_action' = None
  /\ agent_ret' = [op |-> "init"]
  /\ n_calls' = 0
  /\ main' = episode_variables(env_ret'.state)
  /\ UNCHANGED <<name, alpha, gamma, clock, save_ret>>

\* the run that resumes is followed until it asks the policy: up to there
\* it has loaded the snapshot and polled the window
training_run == switches = training_mode

ExecuteActionOfResume == training_run /\ ExecuteActionBounded

SampleActionOfResume == training_run /\ SampleActionBounded

InterruptInGetActionOfResume == training_run /\ InterruptInGetActionBounded

ResumeNext ==
  \/ LoadData
  \/ LoadDataRaises
  \/ InterruptAtLoad
  \/ InterruptInLoadData
  \/ InterruptAfterLoadData
  \/ PollEvents
  \/ ExecuteActionOfResume
  \/ StepEnv
  \/ UpdateAtEnd
  \/ StoreOutcome
  \/ SampleStopExploration
  \/ SampleReset
  \/ SampleActionOfResume
  \/ SampleStep
  \/ SampleResume
  \/ NewEpisode
  \/ CountEpisode
  \/ Interrupt
  \/ InterruptInPoll
  \/ InterruptInGetActionOfResume
  \/ InterruptInStep
  \/ InterruptInReset
  \/ InterruptInSetExploration
  \/ LeaveLoop
  \/ SaveData
  \/ SkipSave
  \/ InterruptAtClose
  \/ InterruptInSaveData
  \/ RunAgain

\* the script run in training mode with SARSA and then in testing mode on
\* the snapshot saved
ResumeSpec == ResumeInit /\ [][ResumeNext]_vars

-----------------------------------------------------------------------------
(* The environment's claims, checked under EnvSpec *)

\* the members of state.valid_actions()
ValidSet(state) ==
  {valid_actions(state)[k] : k \in 1 .. Len(valid_actions(state))}

\* the last call was step()
Stepped == env_ret.op = "step"

\* m is the smallest rate any receiver achieves at the cell (col, row)
IsMinRateAt(m, col, row) ==
  /\ \E ue \in {0, 1} : m = RATE[ue + 1][col + 1][row + 1]
  /\ \A ue \in {0, 1} : m <= RATE[ue + 1][col + 1][row + 1]

\* C1: a step that ends on the return cell (0,14) with the step counter at
\* the budget 50 returns terminated = true, truncated = false and, as its
\* reward, the raw minimum rate of that cell.
C1_TerminatedOnTime ==
  (Stepped /\ uav_pos = Pos(0, 14) /\ uav_step = 50)
    => /\ env_ret.terminated = TRUE
       /\ env_ret.truncated = FALSE
       /\ IsMinRateAt(env_ret.reward, 0, 14)

C1_Witness ==
  /\ Stepped
  /\ uav_pos = Pos(0, 14)
  /\ uav_step = 50
  /\ env_ret.state = State(0, 14, 50)
  /\ env_ret.terminated

\* C2: a step that ends on the return cell with the step counter below the
\* budget returns truncated = true, terminated = false and the reward
\* r - r * (50 - step), r the raw minimum rate of the return cell and step
\* the counter after the increment.
C2_EarlyReturn ==
  (Stepped /\ uav_pos = Pos(0, 14) /\ uav_step < 50)
    => /\ env_ret.truncated = TRUE
       /\ env_ret.terminated = FALSE
       /\ \E r \in {RATE[1][1][15], RATE[2][1][15]} :
            /\ IsMinRateAt(r, 0, 14)
            /\ env_ret.reward = r - r * (50 - uav_step)

C2_Witness ==
  /\ Stepped
  /\ uav_pos = Pos(0, 14)
  /\ uav_step = 7
  /\ env_ret.from # uav_pos
  /\ env_ret.truncated

\* C3: a step that brings the step counter to the budget away from the
\* return cell returns truncated = true, terminated = false and the reward
\* r - 10 * r, r the raw minimum rate of the new cell.
C3_Overrun ==
  (Stepped /\ uav_step = 50 /\ uav_pos # Pos(0, 14))
    => /\ env_ret.truncated = TRUE
       /\ env_ret.terminated = FALSE
       /\ \E ue \in {0, 1} :
            LET r == RATE[ue + 1][uav_pos.col + 1][uav_pos.row + 1]
            IN  /\ IsMinRateAt(r, uav_pos.col, uav_pos.row)
                /\ env_ret.reward = r - 10 * r

C3_Witness ==
  /\ Stepped
  /\ uav_step = 50
  /\ uav_pos = Pos(4, 2)
  /\ env_ret.truncated

\* C4: no step returns terminated and truncated together, and a step that
\* ends away from the return cell with the counter below the budget returns
\* both flags false and the unpenalized minimum rate of the new cell.
C4_OneEndCase ==
  Stepped
    => /\ ~(env_ret.terminated /\ env_ret.truncated)
       /\ (uav_pos # Pos(0, 14) /\ uav_step < 50)
            => /\ env_ret.terminated = FALSE
               /\ env_ret.truncated = FALSE
               /\ IsMinRateAt(env_ret.reward, uav_pos.col, uav_pos.row)

C4_Witness ==
  /\ Stepped
  /\ uav_pos = Pos(3, 12)
  /\ uav_step = 49
  /\ ~env_ret.terminated
  /\ ~env_ret.truncated

\* C5: the reward step() computes before any end-of-episode penalty is the
\* minimum over the receivers of the rate at the cell occupied after the
\* move, and the returned reward is that value or that value less a penalty
\* computed from it.
C5_RewardAtNewCell ==
  Stepped
    => /\ IsMinRateAt(env_ret.rate, uav_pos.col, uav_pos.row)
       /\ env_ret.state.col = uav_pos.col
       /\ env_ret.state.row = uav_pos.row
       /\ env_ret.reward \in {env_ret.rate,
                              env_ret.rate - env_ret.rate * (50 - uav_step),
                              env_ret.rate - env_ret.rate * 10}

\* a move between two cells whose minimum rates differ
C5_Witness ==
  /\ Stepped
  /\ env_ret.from = Pos(4, 3)
  /\ uav_pos = Pos(4, 2)
  /\ ~IsMinRateAt(env_ret.rate, env_ret.from.col, env_ret.from.row)

\* is the cell (col, row) one of the obstacle block, columns 9-10, rows 8-11
InBlock(col, row) == col \in 9 .. 10 /\ row \in 8 .. 11

\* the cell a direction points to from (col, row)
TargetCol(col, a) == IF a = 2 THEN col - 1 ELSE IF a = 3 THEN col + 1 ELSE col
TargetRow(row, a) == IF a = 0 THEN row - 1 ELSE IF a = 1 THEN row + 1 ELSE row

\* the directions of a cell whose target is inside the grid and not an
\* obstacle cell
OpenDirections(col, row) ==
  {a \in 0 .. 3 :
     /\ TargetCol(col, a) \in 0 .. 14
     /\ TargetRow(row, a) \in 0 .. 14
     /\ ~InBlock(TargetCol(col, a), TargetRow(row, a))}

\* the state the environment was in when step() was called
StateBefore == State(env_ret.from.col, env_ret.from.row, uav_step - 1)

\* C16: an action that is not among the valid actions of the current state,
\* given to step(), leaves the UAV where it is: only the step counter
\* advances. This for every cell and every such action, a direction pointing
\* into an adjacent obstacle and an integer outside 0..3 included.
C16_InvalidActionNoOp ==
  (Stepped /\ env_ret.action \notin ValidSet(StateBefore))
    => /\ uav_pos = env_ret.from
       /\ uav_step = StateBefore.step + 1

\* What does hold: an integer outside 0..3 and a direction pointing off the
\* grid leave the UAV where it is, and every other action moves it to the
\* cell it points to, obstacle or not.
OnlyTheGridStopsAMove ==
  Stepped
    => IF /\ env_ret.action \in 0 .. 3
          /\ TargetCol(env_ret.from.col, env_ret.action) \in 0 .. 14
          /\ TargetRow(env_ret.from.row, env_ret.action) \in 0 .. 14
       THEN /\ uav_pos.col = TargetCol(env_ret.from.col, env_ret.action)
            /\ uav_pos.row = TargetRow(env_ret.from.row, env_ret.action)
       ELSE uav_pos = env_ret.from

\* C17: at every cell outside the obstacle block the valid actions of the
\* state are exactly the directions whose target cell is inside the grid and
\* not an obstacle cell: 4 at an interior cell with no obstacle beside it, 2
\* at a grid corner, and never a direction pointing into the obstacle.
C17_MaskIsCorrect ==
  LET col == env_ret.state.col
      row == env_ret.state.row
      V == ValidSet(env_ret.state)
  IN  ~InBlock(col, row)
        => /\ V = OpenDirections(col, row)
           /\ Len(valid_actions(env_ret.state)) = Cardinality(V)
           /\ (col \in {0, 14} /\ row \in {0, 14}) => Cardinality(V) = 2
           /\ (/\ col \in 1 .. 13
               /\ row \in 1 .. 13
               /\ \A a \in 0 .. 3 : ~InBlock(TargetCol(col, a), TargetRow(row, a)))
                => Cardinality(V) = 4
           /\ \A a \in V : ~InBlock(TargetCol(col, a), TargetRow(row, a))

\* the UAV is above the obstacle, where DOWN points into it
C17_Witness ==
  /\ Stepped
  /\ uav_pos = Pos(9, 7)
  /\ env_ret.state.col = 9
  /\ env_ret.state.row = 7
  /\ ValidSet(env_ret.state) = {0, 2, 3}

\* the cell farthest from the start, the corner (14,0), with its two actions
FarCornerReached ==
  /\ Stepped
  /\ uav_pos = Pos(14, 0)
  /\ ValidSet(env_ret.state) = {1, 2}

\* C18: reset() returns the state (start cell (0,14), step 0) and sets the
\* step counter to 0, after any steps; every step() raises the step counter
\* by exactly 1, whether or not the action moved the UAV, and the state it
\* returns carries that counter.
C18_ResetAndCount ==
  [][/\ env_ret'.op = "reset"
          => /\ env_ret'.state = State(0, 14, 0)
             /\ uav_pos' = Pos(0, 14)
             /\ uav_step' = 0
     /\ env_ret'.op = "step"
          => /\ uav_step' = uav_step + 1
             /\ env_ret'.state.step = uav_step'
             /\ env_ret'.state.col = uav_pos'.col
             /\ env_ret'.state.row = uav_pos'.row]_vars

\* the third step since a reset was given an action that did not move the UAV
C18_Witness ==
  /\ Stepped
  /\ uav_step = 3
  /\ env_ret.state.step = 3
  /\ uav_pos = env_ret.from
  /\ uav_pos # Pos(0, 14)

\* the position is a cell of the 15-by-15 grid
InGrid == uav_pos.col \in 0 .. 14 /\ uav_pos.row \in 0 .. 14

\* step() fails on no integer it is handed: the one lookup it makes,
\* UE.RATE[ue_id][col][row] at the cell it has moved to, is inside the table
StepNeverFails ==
  \A action \in ActionInputs :
    LET pos == move(uav_pos, action)
    IN  \A ue_id \in UE_IDS :
          /\ pos.col + 1 \in DOMAIN RATE[ue_id + 1]
          /\ pos.row + 1 \in DOMAIN RATE[ue_id + 1][pos.col + 1]

\* an action that is no direction, or whose target cell is outside the grid,
\* displaces nothing
OffGridDisplacesNothing ==
  (/\ Stepped
   /\ \/ env_ret.action \notin 0 .. 3
      \/ TargetCol(env_ret.from.col, env_ret.action) \notin 0 .. 14
      \/ TargetRow(env_ret.from.row, env_ret.action) \notin 0 .. 14)
    => uav_pos = env_ret.from

\* C23: after any sequence of reset() and step() calls with any action
\* argument (valid, invalid or outside 0..3) the position satisfies
\* 0 <= col < 15 and 0 <= row < 15, a displacement that would leave the grid
\* not being applied, and step() never fails.
C23_StaysInGrid == InGrid /\ OffGridDisplacesNothing /\ StepNeverFails

\* the UAV is in the corner (14,0) and was handed RIGHT, or 4, there
C23_Witness ==
  /\ Stepped
  /\ env_ret.from = Pos(14, 0)
  /\ uav_pos = Pos(14, 0)
  /\ env_ret.action \in {3, 4}

\* C24: when every action handed to step() is one of valid_actions() of the
\* state returned last, the UAV is never in an obstacle cell (columns 9-10,
\* rows 8-11) and every state reached has a valid action.
C24_NeverInObstacle ==
  /\ ~InBlock(uav_pos.col, uav_pos.row)
  /\ ~InBlock(env_ret.state.col, env_ret.state.row)
  /\ Len(valid_actions(env_ret.state)) > 0

\* the UAV walked beside the obstacle, where RIGHT is not offered
C24_Witness ==
  /\ Stepped
  /\ uav_pos = Pos(8, 9)
  /\ env_ret.action = 0
  /\ 3 \notin ValidSet(env_ret.state)

-----------------------------------------------------------------------------
(* The agent's claims, checked under AgentSpec *)

\* the step is a get_action() call on the SARSA agent
SarsaCalled == name = "SARSA" /\ n_calls' = n_calls + 1

\* Q(key, a) of a table, 0 where the key has no row yet
QValue(table, key, a) ==
  IF key \in DOMAIN table THEN table[key][a + 1] ELSE 0

\* the valid actions of a state whose value in a table is the largest
ArgMaxValid(table, state) ==
  {a \in ValidSet(state) :
     \A b \in ValidSet(state) :
       QValue(table, StateKey(state), a) >= QValue(table, StateKey(state), b)}

Dist(x, y) == IF x >= y THEN x - y ELSE y - x

\* C6: an update sets Q(s,a) to Q(s,a) + alpha * (reward + gamma * Q(s1,a1)
\* - Q(s,a)), with (s,a) the state given to and the action returned by the
\* preceding call, s1 the state given now and a1 the action returned now;
\* with alpha = 0 the value is unchanged, and with 0 < alpha <= 1 it moves
\* strictly toward reward + gamma * Q(s1,a1) whenever it differs from it.
C6_OnPolicyUpdate ==
  [][(SarsaCalled /\ agent_ret.op = "get_action" /\ agent_ret'.reward # <<>>)
       => LET s == StateKey(agent_ret.state)
              a == agent_ret.action
              s1 == StateKey(agent_ret'.state)
              a1 == agent_ret'.action
              old == QValue(q_table, s, a)
              target == agent_ret'.reward[1] + times(gamma, QValue(q_table, s1, a1))
              new == q_table'[s][a + 1]
          IN  /\ new = old + times(alpha, target - old)
              /\ alpha = 0 => new = old
              /\ (0 < alpha /\ alpha <= HyperScale /\ old # target)
                   => Dist(new, target) < Dist(old, target)]_vars

\* an update with 0 < alpha < 1 has propagated a non-zero Q(s1,a1) that is
\* not the largest value of the row of s1
C6_Witness ==
  /\ name = "SARSA"
  /\ alpha = 3
  /\ n_calls = 3
  /\ agent_ret.reward = <<2 * QScale>>
  /\ \E s \in StateInputs, a \in 0 .. 3 :
       LET row == q_table[StateKey(agent_ret.state)]
       IN  /\ StateKey(s) \in DOMAIN q_table
           /\ row[agent_ret.action + 1] < 0
           /\ \E b \in ValidSet(agent_ret.state) : row[b + 1] > row[agent_ret.action + 1]
           /\ q_table[StateKey(s)][a + 1]
                = times(3, 2 * QScale + times(9, row[agent_ret.action + 1]))

\* C7: get_action() updates the table if and only if a prior pair exists
\* and reward is not None: the first call, and a later call with reward
\* None, change no value of the table (they can only add all-zero rows), yet
\* select an action and replace the prior pair; a call with a prior pair and
\* a reward changes Q(s,a) whenever alpha > 0 and the target differs.
C7_UpdateIffPriorAndReward ==
  [][SarsaCalled
       => /\ (agent_ret.op = "init" \/ agent_ret'.reward = <<>>)
               => /\ \A key \in DOMAIN q_table :
                       key \in DOMAIN q_table' /\ q_table'[key] = q_table[key]
                  /\ \A key \in DOMAIN q_table' \ DOMAIN q_table :
                       q_table'[key] = <<0, 0, 0, 0>>
                  /\ agent_ret'.action \in ValidSet(agent_ret'.state)
                  /\ current_state' = <<agent_ret'.state>>
                  /\ current_action' = <<agent_ret'.action>>
          /\ (agent_ret.op = "get_action" /\ agent_ret'.reward # <<>>)
               => LET s == StateKey(agent_ret.state)
                      a == agent_ret.action
                      old == QValue(q_table, s, a)
                      target == agent_ret'.reward[1]
                                  + times(gamma, QValue(q_table, StateKey(agent_ret'.state),
                                                        agent_ret'.action))
                  IN  (alpha > 0 /\ old # target) => q_table'[s][a + 1] # old]_vars

\* a call with reward None on an agent whose table holds a learnt value,
\* made with another state than the one of the call before
C7_Witness ==
  /\ name = "SARSA"
  /\ n_calls = 3
  /\ agent_ret.reward = <<>>
  /\ \E key \in DOMAIN q_table, i \in 1 .. 4 : q_table[key][i] # 0
  /\ current_state = <<agent_ret.state>>
  /\ current_action = <<agent_ret.action>>

\* C8: the action get_action() returns, of SARSA in either branch and of
\* RandomAction, is a member of valid_actions() of the state given.
C8_ActionIsValid ==
  agent_ret.op = "get_action" => agent_ret.action \in ValidSet(agent_ret.state)

\* an exploiting call on a state one of whose valid actions has a negative
\* value: the call returns another valid action, not the invalid ones whose
\* value ties with it
C8_Witness ==
  /\ name = "SARSA"
  /\ agent_ret.op = "get_action"
  /\ ~agent_ret.explore
  /\ n_calls = 3
  /\ StateKey(agent_ret.state) \in DOMAIN q_table
  /\ \E a \in ValidSet(agent_ret.state) : q_table[StateKey(agent_ret.state)][a + 1] < 0
  /\ q_table[StateKey(agent_ret.state)][agent_ret.action + 1] = 0

\* the same claim's other agent: RandomAction has returned an action
C8_WitnessRandom ==
  /\ name = "Random Action"
  /\ agent_ret.op = "get_action"

\* C9, first half: an exploiting call returns a valid action whose value for
\* the state given is the largest among the valid actions, and a call with
\* exploration disabled exploits.
C9_ExploitReturnsMax ==
  [][SarsaCalled
       => /\ ~agent_ret'.explore
               => agent_ret'.action \in ArgMaxValid(q_table, agent_ret'.state)
          /\ ~is_exploration => ~agent_ret'.explore]_vars

\* C9, second half: every valid action attaining the largest value is a
\* possible result of an exploiting call.
C9_EveryMaxPossible ==
  (name = "SARSA" /\ n_calls < MaxCalls)
    => \A state \in StateInputs, reward \in RewardInputs :
         \A m \in ArgMaxValid(q_table, state) :
           ENABLED (/\ SARSA_get_action(state, reward)
                    /\ agent_ret'.action = m
                    /\ agent_ret'.explore = FALSE)

\* C9: the actions an exploiting call can return are exactly the valid
\* actions whose value for the current state is the largest.
C9_ExploitSet == C9_ExploitReturnsMax /\ []C9_EveryMaxPossible

\* an exploiting call has returned the second of two valid actions that tie
\* for the largest value, while a third valid action has a smaller, learnt
\* value
C9_Witness ==
  /\ name = "SARSA"
  /\ agent_ret.op = "get_action"
  /\ ~agent_ret.explore
  /\ agent_ret.reward = <<>>
  /\ LET row == q_table[StateKey(agent_ret.state)]
     IN  /\ \E a \in ValidSet(agent_ret.state) :
              a < agent_ret.action /\ row[a + 1] = row[agent_ret.action + 1]
         /\ \E b \in ValidSet(agent_ret.state) : row[b + 1] < row[agent_ret.action + 1]

\* C10: every get_action() call of SARSA performs exactly one decay step on
\* epsilon, whichever branch chose the action and whether or not the table
\* was updated.
C10_OneDecayPerCall ==
  [][SarsaCalled
       => /\ epsilon' = decay(epsilon)
          /\ lt(epsilon'.value, epsilon.value)
          /\ epsilon'.init = epsilon.init]_vars

\* two calls made, the last one exploring and updating
C10_Witness ==
  /\ name = "SARSA"
  /\ n_calls = 2
  /\ agent_ret.explore
  /\ agent_ret.reward # <<>>
  /\ epsilon = decay(decay(DecayingFloat_reset(epsilon)))
  /\ lt(float(epsilon), epsilon.init)

\* The arithmetic of the model is exact: no update of a run rounds, neither
\* in gamma * Q(s1,a1) nor in alpha * (...).
UpdatesAreExact ==
  [][(SarsaCalled /\ agent_ret.op = "get_action" /\ agent_ret'.reward # <<>>)
       => LET q1 == QValue(q_table, StateKey(agent_ret'.state), agent_ret'.action)
              old == QValue(q_table, StateKey(agent_ret.state), agent_ret.action)
              target == agent_ret'.reward[1] + times(gamma, q1)
          IN  /\ (gamma * (q1 % HyperScale)) % HyperScale = 0
              /\ (alpha * ((target - old) % HyperScale)) % HyperScale = 0]_vars

\* C29: a get_action() call changes at most one entry of the table, Q(s,a)
\* of the prior pair: every other entry of every row keeps its value, no row
\* is removed, and the rows added are those of keys not seen before, the
\* prior state's and the given state's, all zero but for Q(s,a).
C29_OneEntryChanges ==
  [][SarsaCalled
       => /\ DOMAIN q_table \subseteq DOMAIN q_table'
          /\ \A key \in DOMAIN q_table' \ DOMAIN q_table :
               \/ key = StateKey(agent_ret'.state)
               \/ current_state # None /\ key = StateKey(Val(current_state))
          /\ \A key \in DOMAIN q_table' :
               /\ Len(q_table'[key]) = num_actions
               /\ \A a \in 0 .. num_actions - 1 :
                    QValue(q_table', key, a) # QValue(q_table, key, a)
                      => /\ current_state # None
                         /\ agent_ret'.reward # None
                         /\ key = StateKey(Val(current_state))
                         /\ a = Val(current_action)]_vars

\* the table holds the rows of two states, and the last call changed
\* the entry of its prior pair, in the other row than that of the state given
C29_Witness ==
  /\ name = "SARSA"
  /\ n_calls = 3
  /\ agent_ret.op = "get_action"
  /\ agent_ret.reward # None
  /\ Cardinality(DOMAIN q_table) = 2
  /\ \E key \in DOMAIN q_table \ {StateKey(agent_ret.state)} :
       /\ Cardinality({i \in 1 .. 4 : q_table[key][i] # 0}) = 1
       /\ \E i \in 1 .. 4 : q_table[StateKey(agent_ret.state)][i] # 0

-----------------------------------------------------------------------------
(* The exploration parameter's claims, checked under FloatSpec *)

\* a method of the DecayingFloat has been called
FloatCalled == name = "DecayingFloat" /\ agent_ret.op \in {"decay", "reset"}

\* C11: for an exploration parameter configured with a floor m, the current
\* value is never below m in any state reached by a sequence of decay() and
\* reset() calls, in either decay mode.
C11_NeverBelowFloor ==
  (FloatCalled /\ epsilon.minval # None /\ epsilon.mode \in {"exp", "linear"})
    => le(Val(epsilon.minval), float(epsilon))

\* What does hold: a parameter constructed at or above its floor stays at or
\* above it, and one constructed below it is raised to it by the first
\* decay() that has a factor, until the next reset().
FloorHoldsFromAbove ==
  (name = "DecayingFloat" /\ epsilon.minval # None)
    => \/ le(Val(epsilon.minval), float(epsilon))
       \/ /\ lt(epsilon.init, Val(epsilon.minval))
          /\ float(epsilon) = epsilon.init

\* C26: for an exploration parameter with a positive initial value, a decay
\* factor and no floor, zero is the lowest value reachable: after any number
\* of decay() calls, in exponential or linear mode, the value is >= 0.
C26_NeverBelowZero ==
  (/\ name = "DecayingFloat"
   /\ lt(zero, epsilon.init)
   /\ epsilon.factor # None
   /\ epsilon.minval = None
   /\ epsilon.mode \in {"exp", "linear"})
    => le(zero, float(epsilon))

\* What does hold: without a floor the exponential mode keeps a positive
\* value positive, and the linear mode lowers it by the factor at every
\* call, below zero too.
OnlyLinearGoesBelowZero ==
  (/\ name = "DecayingFloat"
   /\ lt(zero, epsilon.init)
   /\ epsilon.factor # None
   /\ epsilon.minval = None)
    => IF epsilon.mode = "linear"
       THEN \E k \in 0 .. MaxDecays :
              float(epsilon) = sub(epsilon.init, mul(<<k>>, Val(epsilon.factor)))
       ELSE lt(zero, float(epsilon))

\* this step is a call of decay()
Decays == name = "DecayingFloat" /\ agent_ret'.op = "decay" /\ n_calls' = n_calls + 1

\* C27: for an exploration parameter whose mode is neither exponential nor
\* linear, decay() does nothing: the value after the call is the value
\* before it, for every initial value, factor and floor.
C27_UnknownModeDoesNothing ==
  [][(Decays /\ epsilon.mode \notin {"exp", "linear"}) => epsilon' = epsilon]_vars

\* What does hold: in an unknown mode decay() leaves a value at or above the
\* floor alone, and raises a value below the floor to the floor when a
\* factor is set.
UnknownModeStillClamps ==
  [][(Decays /\ epsilon.mode \notin {"exp", "linear"})
       => IF /\ epsilon.factor # None
             /\ epsilon.minval # None
             /\ lt(float(epsilon), Val(epsilon.minval))
          THEN float(epsilon') = Val(epsilon.minval)
          ELSE epsilon' = epsilon]_vars

\* the parameter decays exponentially by a factor between 0 and 1 from a
\* positive initial value
Exponential ==
  /\ name = "DecayingFloat"
  /\ epsilon.mode = "exp"
  /\ epsilon.factor # None
  /\ lt(zero, Val(epsilon.factor))
  /\ lt(Val(epsilon.factor), <<1>>)
  /\ lt(zero, epsilon.init)

\* the floor, if one is set, lies below v
AboveFloor(v) == epsilon.minval = None \/ lt(Val(epsilon.minval), v)

\* C28: in exponential mode with 0 < factor < 1 and a positive initial
\* value, the value never rises at a decay() call; it falls and stays
\* positive while no floor is set or the floor is not reached; it stays at
\* the floor once there; and reset() restores the initial value after any
\* number of decays.
C28_ExponentialDecay ==
  [][Exponential
       => /\ Decays
               => /\ le(float(epsilon'), float(epsilon))
                  /\ AboveFloor(float(epsilon'))
                       => /\ lt(float(epsilon'), float(epsilon))
                          /\ lt(zero, float(epsilon'))
                  /\ (epsilon.minval # None /\ float(epsilon) = Val(epsilon.minval))
                       => float(epsilon') = Val(epsilon.minval)
          /\ agent_ret'.op = "reset" => float(epsilon') = epsilon.init]_vars

\* What does hold: the same for a parameter constructed at or above its
\* floor; one constructed below it rises to the floor at the first decay.
ExponentialDecayFromAbove ==
  [][Exponential
       => /\ Decays
               => /\ le(float(epsilon'), float(epsilon))
                     \/ /\ epsilon.minval # None
                        /\ lt(epsilon.init, Val(epsilon.minval))
                        /\ float(epsilon) = epsilon.init
                        /\ float(epsilon') = Val(epsilon.minval)
                  /\ AboveFloor(float(epsilon'))
                       => /\ lt(float(epsilon'), float(epsilon))
                          /\ lt(zero, float(epsilon'))
                  /\ (epsilon.minval # None /\ float(epsilon) = Val(epsilon.minval))
                       => float(epsilon') = Val(epsilon.minval)
          /\ agent_ret'.op = "reset" => float(epsilon') = epsilon.init]_vars

-----------------------------------------------------------------------------
(* The claims of q() and set_exploration(), checked under ApiSpec *)

\* the step is a call of the method `op` on the SARSA agent
MethodCalled(op) ==
  name = "SARSA" /\ n_calls' = n_calls + 1 /\ agent_ret'.op = op

\* C12, the result: q(key) on a key not yet in the table inserts and returns
\* an all-zero vector of length num_actions (4); on a key in the table it
\* returns the stored row and changes nothing; no other row is touched.
C12_QResult ==
  [][MethodCalled("q")
       => LET key == agent_ret'.key
          IN  /\ key \notin DOMAIN q_table
                   => /\ key \in DOMAIN q_table'
                      /\ q_table'[key] = <<0, 0, 0, 0>>
                      /\ agent_ret'.ret = <<0, 0, 0, 0>>
                      /\ Len(agent_ret'.ret) = Len(<<UP, DOWN, LEFT, RIGHT>>)
              /\ key \in DOMAIN q_table
                   => /\ q_table' = q_table
                      /\ agent_ret'.ret = q_table[key]
              /\ \A k \in DOMAIN q_table :
                   k \in DOMAIN q_table' /\ q_table'[k] = q_table[k]
              /\ DOMAIN q_table' = DOMAIN q_table \cup {key}]_vars

\* C12, never fails: q(key) can be called in every state, whether or not
\* the key has a row.
C12_QNeverFails ==
  (name = "SARSA" /\ n_calls < MaxApiCalls)
    => \A key \in KeyInputs : ENABLED (ApiQ /\ agent_ret'.key = key)

\* C12: SARSA.q(key) never fails for a key not yet in the table: the first
\* reference inserts and returns an all-zero vector of length num_actions,
\* a later reference returns the stored row without resetting it.
C12_QCreatesOnce == C12_QResult /\ []C12_QNeverFails

\* q() has returned a row that holds a learnt value, in a table to which an
\* earlier q() added the all-zero row of a key no get_action() was given
C12_Witness ==
  /\ name = "SARSA"
  /\ agent_ret.op = "q"
  /\ agent_ret.key = "(0,14,0)"
  /\ \E i \in 1 .. 4 : agent_ret.ret[i] # 0
  /\ q_table["(0,14,0)"] = agent_ret.ret
  /\ "(8,9,1)" \in DOMAIN q_table
  /\ q_table["(8,9,1)"] = <<0, 0, 0, 0>>

\* C19: set_exploration(flag) sets the switch to flag and returns the value
\* the switch had before the call; a call that gives back what the call
\* before it returned leaves the switch as it was before the two calls.
C19_SetExploration ==
  [][MethodCalled("set_exploration")
       => /\ is_exploration' = agent_ret'.exploration
          /\ agent_ret'.ret = is_exploration
          /\ (agent_ret.op = "set_exploration"
                /\ agent_ret'.exploration = agent_ret.ret)
               => is_exploration' = agent_ret.before]_vars

\* the second call of such a pair: it gave back TRUE, which the first call,
\* set_exploration(FALSE), had returned
C19_Witness ==
  /\ name = "SARSA"
  /\ agent_ret.op = "set_exploration"
  /\ agent_ret.exploration = TRUE
  /\ agent_ret.before = FALSE
  /\ agent_ret.ret = FALSE
  /\ is_exploration = TRUE
  /\ n_calls >= 2

-----------------------------------------------------------------------------
(* The claims of the snapshots, checked under StoreSpec *)

\* the file load_data() reads holds the snapshot the last save_data() wrote
SnapshotPresented ==
  /\ save_ret.op = "save_data"
  /\ load_filename(name) \in DOMAIN disk
  /\ disk[load_filename(name)] = disk[save_ret.filename]

\* C13: save_data(r), then the written snapshot presented as the load file,
\* then load_data(): the call returns r, the exploration value is the one
\* that was current at save time, and q(k) is the saved vector for every
\* state key k the table held at save time, whatever calls were made between
\* the save and the load.
C13_RoundTrip ==
  [][(MethodCalled("load_data") /\ SnapshotPresented)
       => /\ agent_ret'.ret = save_ret.round_id
          /\ float(epsilon') = save_ret.epsilon
          /\ \A k \in DOMAIN save_ret.table \ {"round", "epsilon"} :
               /\ k \in DOMAIN q_table'
               /\ q_table'[k] = save_ret.table[k]
               /\ q(q_table', k)[k] = save_ret.table[k]]_vars

\* load_data() has brought back round 7, a learnt value and the exploration
\* value of two decays, after a third get_action() call had decayed it again
C13_Witness ==
  /\ name = "SARSA"
  /\ agent_ret.op = "load_data"
  /\ agent_ret.found
  /\ agent_ret.ret = 7
  /\ n_calls = 5
  /\ SnapshotPresented
  /\ save_ret.round_id = 7
  /\ save_ret.epsilon = float(decay(decay(DecayingFloat_reset(epsilon))))
  /\ float(epsilon) = save_ret.epsilon
  /\ lt(float(epsilon), epsilon.init)
  /\ \E i \in 1 .. 4 :
       /\ save_ret.table["(0,14,0)"][i] # 0
       /\ q_table["(0,14,0)"][i] = save_ret.table["(0,14,0)"][i]

\* C15: save_data() never overwrites a prior snapshot: it writes to a name no
\* earlier save_data() wrote to, so every file keeps the content it had.
C15_NeverOverwrites ==
  [][MethodCalled("save_data")
       => /\ save_ret'.filename \notin DOMAIN disk
          /\ \A f \in DOMAIN disk : f \in DOMAIN disk' /\ disk'[f] = disk[f]]_vars

\* What does hold: a save_data() call overwrites nothing when the second of
\* its call differs from the second of every earlier call.
SavesInDistinctSecondsKeep ==
  [][(MethodCalled("save_data") /\ save_ret.op = "save_data" /\ clock' # clock)
       => /\ save_ret'.filename \notin DOMAIN disk
          /\ \A f \in DOMAIN disk : f \in DOMAIN disk' /\ disk'[f] = disk[f]]_vars

\* load_data() without a load file returns -1 and leaves the table, the
\* exploration parameter and the prior pair as they are, whatever they hold.
LoadMissingLeavesAgent ==
  [][(MethodCalled("load_data") /\ load_filename(name) \notin DOMAIN disk)
       => /\ agent_ret'.ret = -1
          /\ UNCHANGED <<q_table, epsilon, current_state, current_action,
                         is_exploration, disk>>]_vars

\* the entry of the table under a key is a vector of one number per action
\* (the entries under the keys "round" and "epsilon" are single numbers)
IsActionVector(key) ==
  key \notin ReservedKeys /\ Len(q_table[key]) = num_actions

\* C30: in every state reached by get_action(), save_data() and load_data()
\* calls, every entry of the agent's table is a numeric vector whose length
\* is the number of actions.
C30_EntriesAreVectors ==
  name = "SARSA" => \A key \in DOMAIN q_table : IsActionVector(key)

\* What does hold: the entry of every state's key is such a vector, and the
\* other entries are the two numbers save_data() and load_data() leave in
\* the table.
StateEntriesAreVectors ==
  name = "SARSA"
    => \A key \in DOMAIN q_table :
         \/ IsActionVector(key)
         \/ key \in ReservedKeys /\ save_ret.op = "save_data"

-----------------------------------------------------------------------------
(* The script's claims, checked under Spec *)

\* the script has just called load_data() and no file has the load name
LoadedNothing ==
  /\ main.pc = "load"
  /\ main'.pc = "loop"
  /\ switches.LOAD_DATA_FLAG
  /\ load_filename(name) \notin DOMAIN disk

\* C14: when no file with the load name exists, load_data() returns -1 and
\* leaves the value table, the exploration value and the prior pair as they
\* were; the script then starts at episode 1.
C14_MissingSnapshot ==
  [][LoadedNothing
       => /\ agent_ret'.op = "load_data"
          /\ agent_ret'.ret = -1
          /\ q_table' = q_table
          /\ epsilon' = epsilon
          /\ current_state' = current_state
          /\ current_action' = current_action
          /\ main'.progress = Some(-1)
          /\ main'.episode_id = 1]_vars

\* SARSA in training mode found no file and is in its first episode
C14_Witness ==
  /\ name = "SARSA"
  /\ switches = training_mode
  /\ main.progress = Some(-1)
  /\ main.episode_id = 1
  /\ main.pc = "step"
  /\ agent_ret.op = "get_action"
  /\ agent_ret.reward = None

\* the last call of the environment was a step that ended an episode
EndedStep == env_ret.op = "step" /\ episode_ended(env_ret)

\* the policy was called with the state that step returned: its prior pair
\* holds that state (states carry the step counter, so no earlier call of
\* the episode had it)
Flushed == current_state = Some(env_ret.state)

\* C20: whenever step() has returned terminated or truncated, exactly one
\* further get_action() call is made, with the final state and its reward,
\* before the environment is reset; and a reset leaves the value table and
\* the exploration value as they are. The calls are read off the prior pair
\* of the learning policy.
C20_FlushBeforeReset ==
  [][/\ (env_ret'.op = "reset" /\ env_ret' # env_ret)
          => q_table' = q_table /\ epsilon' = epsilon
     /\ (name = "SARSA" /\ EndedStep /\ env_ret'.op = "reset") => Flushed
     /\ (name = "SARSA" /\ EndedStep /\ n_calls' = n_calls + 1)
          => /\ ~Flushed
             /\ agent_ret'.state = env_ret.state
             /\ agent_ret'.reward = Some(env_ret.reward)]_vars

\* What does hold: the reset that follows a sample is the only one made
\* without that call, and a reset never changes the table or the
\* exploration value.
OnlyTheSampleIsNotFlushed ==
  [][/\ (env_ret'.op = "reset" /\ env_ret' # env_ret)
          => q_table' = q_table /\ epsilon' = epsilon
     /\ (name = "SARSA" /\ EndedStep /\ env_ret'.op = "reset" /\ ~Flushed)
          => main.pc = "next" /\ main.original_value # None
     /\ (name = "SARSA" /\ EndedStep /\ n_calls' = n_calls + 1)
          => /\ ~Flushed
             /\ agent_ret'.state = env_ret.state
             /\ agent_ret'.reward = Some(env_ret.reward)]_vars

\* a value of the table differs after the step (a row not there counts as
\* zeros)
TableValueChanges ==
  \E key \in DOMAIN q_table' \ ReservedKeys : \E a \in 0 .. num_actions - 1 :
    QValue(q_table', key, a) # QValue(q_table, key, a)

\* C21: in a run of the script no update of the table crosses an episode
\* boundary: a get_action() call that changes a value applies the reward of
\* the step() just made, to the prior pair of the step before in the same
\* episode; the first get_action() after a reset changes no value.
C21_NoUpdateAcrossEpisodes ==
  [][(SarsaCalled /\ TableValueChanges)
       => /\ env_ret.op = "step"
          /\ agent_ret'.reward = Some(env_ret.reward)
          /\ Val(current_state).step + 1 = agent_ret'.state.step]_vars

\* What does hold: a call that follows a step() is given that step's reward
\* and has the state of the step before as its prior state.
UpdatesWithinAnEpisode ==
  [][(SarsaCalled /\ env_ret.op = "step")
       => /\ agent_ret'.reward = Some(env_ret.reward)
          /\ agent_ret'.state = env_ret.state
          /\ Val(current_state).step + 1 = agent_ret'.state.step]_vars

\* the script is between "original_value = ai.set_exploration(False)" and
\* the end of the sample
InSample ==
  main.pc \in {"sample", "sample_reset", "sample_loop", "sample_step", "sample_end"}

\* the script is making the call that restores the exploration flag
SampleEnds == main.pc = "sample_end" /\ main'.pc = "next"

\* C22: a sample, the greedy episode between set_exploration(False) and
\* set_exploration(original_value), leaves the agent as training left it:
\* the exploration flag after the restoring call is the flag before the
\* sample, and no call of the sample changes the exploration value or an
\* entry of the table. (The exploration value only falls, so a change
\* inside the sample is a difference after it.)
C22_SampleLeavesAgent ==
  [][(name = "SARSA" /\ InSample)
       => /\ float(epsilon') = float(epsilon)
          /\ ~TableValueChanges
          /\ SampleEnds => is_exploration' = switches.EXPLORATION_FLAG]_vars

\* What does hold: the flag is off during the sample, no call of it
\* explores, and the flag is restored at its end.
SampleRestoresTheFlag ==
  [][(name = "SARSA" /\ InSample)
       => /\ (SarsaCalled => ~is_exploration /\ ~agent_ret'.explore)
          /\ SampleEnds => is_exploration' = switches.EXPLORATION_FLAG]_vars

\* the step counter is within the flight time
WithinFlightTime == uav_step \in 0 .. FLIGHT_TIME

\* this step is a step() call of the script
ScriptSteps == main.pc \in {"step", "sample_step"} /\ uav_step' # uav_step

\* a step() that brings the counter to the flight time ends the episode,
\* the training episode and the sample alike
FlightTimeEndsEpisode ==
  [][(ScriptSteps /\ uav_step' = FLIGHT_TIME)
       => /\ env_ret'.terminated \/ env_ret'.truncated
          /\ main'.pc \in {"update", "sample_end"}]_vars

\* every turn of either loop raises the step counter by one, and a turn
\* that does not end the episode leaves it below the flight time
LoopsAdvance ==
  [][ScriptSteps
       => /\ uav_step' = uav_step + 1
          /\ main'.pc \in {"loop", "sample_loop"} => uav_step' < FLIGHT_TIME]_vars

\* the loops are never stuck: where the policy is asked, the state has a
\* valid action to choose
PolicyCanChoose ==
  main.pc \in AtGetAction
    => /\ main.state = env_ret.state
       /\ Len(valid_actions(main.state)) > 0

\* C25: in the loop of the script every episode, training or sample, ends
\* (terminated or truncated) after at most FLIGHT_TIME (50) step() calls
\* since the last reset: the step counter stays within 0..50 in every
\* state, and the loop of the sample always terminates, each of its turns
\* raising the counter and none being stuck.
C25_EpisodesEnd ==
  /\ []WithinFlightTime
  /\ FlightTimeEndsEpisode
  /\ LoopsAdvance
  /\ []PolicyCanChoose

\* a sample that flew the whole flight time and is not back at the start
C25_Witness ==
  /\ main.pc = "sample_end"
  /\ uav_step = FLIGHT_TIME
  /\ env_ret.truncated
  /\ uav_pos # END_POS

-----------------------------------------------------------------------------
(* The round counter, checked under ResumeSpec *)

\* r: the round load_data() returned, 0 when the run started fresh (nothing
\* was loaded, or no snapshot was found)
loaded_round ==
  IF main.progress = None THEN 0
  ELSE IF Val(main.progress) = -1 THEN 0 ELSE Val(main.progress)

\* the episode count reached so far: r + k, k the episodes whose outcome the
\* run has stored
episode_count == loaded_round + main.episode_len

\* between two iterations of the loop the episode index is r + k + 1
CountsAtLoopHead ==
  main.pc = "loop" => main.episode_id = episode_count + 1

\* the loop is left between two iterations, by KeyboardInterrupt or after
\* EVENT_QUIT, with the episode variables as they are
LeavesBetweenIterations ==
  main.pc = "loop" /\ main'.pc = "close"
    => /\ main'.episode_id = main.episode_id
       /\ main'.episode_len = main.episode_len
       /\ main'.progress = main.progress

\* the closing save of a run that left the loop with episode index r + k + 1
SavesAtCount ==
  /\ main.pc = "close"
  /\ main'.pc = "done"
  /\ switches.SAVE_DATA_FLAG
  /\ main.episode_id = episode_count + 1

\* the closing save of such a run is left by a second KeyboardInterrupt
\* after its first statement
SaveCutAtCount ==
  /\ main.pc = "close"
  /\ main'.pc = "raised"
  /\ agent_ret'.op = "interrupted"
  /\ agent_ret'.call = "save_data"
  /\ main.episode_id = episode_count + 1

\* the run that resumes has just called load_data()
LaterRunLoads ==
  /\ switches = testing_mode
  /\ main.pc = "load"
  /\ main'.pc = "loop"

\* C31: the round the script saves is the episode count reached so far. With
\* r the round load_data() returned (0 for a fresh run) and k the episodes
\* completed, the episode index between two iterations of the loop is
\* r + k + 1; a run that leaves the loop there calls save_data(r + k) and the
\* snapshot written carries the round r + k; the later run that loads this
\* snapshot gets r + k from load_data() and starts at episode r + k + 1. A
\* save_data() that a second interrupt cuts short was called with r + k too.
C31_RoundIsEpisodeCount ==
  /\ []CountsAtLoopHead
  /\ [][LeavesBetweenIterations]_vars
  /\ [][SavesAtCount
          => /\ agent_ret'.op = "save_data"
             /\ agent_ret'.round_id = episode_count
             /\ save_ret'.round_id = episode_count
             /\ json_load(disk'[save_ret'.filename])["round"] = episode_count]_vars
  /\ [][SaveCutAtCount => q_table'["round"] = episode_count]_vars
  /\ [][LaterRunLoads
          => /\ agent_ret'.ret = save_ret.round_id
             /\ main'.progress = Some(save_ret.round_id)
             /\ main'.episode_id = save_ret.round_id + 1
             /\ main'.episode_len = 0]_vars

\* a training run resumed from round 3 completed one episode, was interrupted
\* and saved round 4; the later run has loaded the snapshot and is at the
\* head of the loop in episode 5
C31_Witness ==
  /\ switches = testing_mode
  /\ main.pc = "loop"
  /\ main.episode_len = 0
  /\ save_ret.op = "save_data"
  /\ save_ret.round_id = 4
  /\ main.progress = Some(4)
  /\ main.episode_id = 5

\* a fresh training run completed its first episode and the sample, was
\* interrupted and saved round 1; the later run resumes at episode 2
FreshRunResumed ==
  /\ switches = testing_mode
  /\ main.pc = "loop"
  /\ save_ret.op = "save_data"
  /\ save_ret.round_id = 1
  /\ main.progress = Some(1)
  /\ main.episode_id = 2

\* the closing save of a run that left the loop with another episode index
SavesOffCount ==
  /\ main.pc = "close"
  /\ main'.pc = "done"
  /\ switches.SAVE_DATA_FLAG
  /\ main.episode_id # episode_count + 1

\* a run interrupted inside an iteration, after the outcome of the episode
\* is stored and before "episode_id += 1", saves one round less: r + k - 1
SavesBehindCount ==
  [][SavesOffCount
       => /\ main.episode_id = episode_count
          /\ save_ret'.round_id = episode_count - 1]_vars
====
